---- MODULE Spec2Model ----
(***************************************************************************)
(* Model of the two engines of ezzinv/automation:                          *)
(*   - ErrorRecoverySystem           (error_recovery.py)                   *)
(*   - AutoGenSelfModificationSystem (autogen_self_modification.py)        *)
(* A message is a sequence of words; the clock counts minutes.             *)
(***************************************************************************)
EXTENDS Integers, Sequences, FiniteSets, Bags, TLC

VARIABLES
    now,                    \* the wall clock read by datetime.now() / time.time()
    error_events,           \* ErrorRecoverySystem.error_events: signature -> ErrorEvent
    recovery_rules,         \* ErrorRecoverySystem.recovery_rules: list of RecoveryRule
    active_recoveries,      \* keys of ErrorRecoverySystem.active_recoveries
    emergency_mode_active,  \* ErrorRecoverySystem.emergency_mode_active
    reporting,              \* position of the _process_error_event call in progress
    execs,                  \* bag of detached _execute_recovery_rule coroutines
    last_selected,          \* history: per rule, when _attempt_recovery last selected it
    finished,               \* history: per rule, number of finished executions
    reported,               \* history: per signal, how often and when last it was reported
    safety_checks_enabled,  \* AutoGenSelfModificationSystem.safety_checks_enabled
    auto_rollback_on_failure, \* AutoGenSelfModificationSystem.auto_rollback_on_failure
    tasks,                  \* the ModificationTask objects: id -> fields
    task_queue,             \* AutoGenSelfModificationSystem.task_queue: list of task ids
    active_tasks,           \* keys of AutoGenSelfModificationSystem.active_tasks
    completed_tasks,        \* AutoGenSelfModificationSystem.completed_tasks: list of ids
    task_runs,              \* detached _execute_modification_task coroutines: id -> locals
    generation,             \* position of the _generate_modification_tasks call in progress
    cycles,                 \* number of generation cycles begun
    rejected,               \* history: the candidates _validate_task refused in the running cycle
    last_finished,          \* history: how the latest step ended a task or a rollback
    analysis,               \* history: what the latest step, if it began a generation
                            \* cycle, read and put into its new_tasks list
    loops                   \* position of each background loop of the two engines

recovery_vars == <<error_events, recovery_rules, active_recoveries, reporting, execs,
                   last_selected, finished, reported>>

modification_vars == <<safety_checks_enabled, auto_rollback_on_failure, tasks,
                       task_queue, active_tasks, completed_tasks, task_runs,
                       generation, cycles, rejected, last_finished, analysis>>

vars == <<now, emergency_mode_active, recovery_vars, modification_vars, loops>>

----------------------------------------------------------------------------
(* The background loops: while True: try: body; sleep(interval)             *)
(*                       except Exception: sleep(backoff)                   *)

\* the detection loop of the recovery engine (its health-check, cleanup and
\* pattern-analysis loops have the same shape)
RecoveryLoops == {"_error_detection_loop"}

\* the generation, execution and monitoring loops of the modification engine
\* (its learning loop has the same shape)
ModificationLoops ==
    {"_task_generation_loop", "_task_execution_loop", "_system_monitoring_loop"}

Loops == RecoveryLoops \cup ModificationLoops

\* seconds of the sleep after a body that returned
Interval(l) ==
    CASE l = "_error_detection_loop"   -> 30
      [] l = "_task_generation_loop"   -> 3600
      [] l = "_task_execution_loop"    -> 60
      [] OTHER                         -> 300

\* seconds of the sleep in the except clause
Backoff(l) ==
    CASE l = "_error_detection_loop"   -> 60
      [] l = "_task_generation_loop"   -> 300
      [] l = "_task_execution_loop"    -> 60
      [] OTHER                         -> 300

\* whether the body of a loop can raise into the loop: _generate_modification_tasks
\* has its whole body in a try, _execute_pending_tasks has nothing that raises
\* outside its try; _scan_for_errors reads settings.database_url outside a try;
\* the body of the monitoring loop calls a method the class does not define
BodyRaises(l) ==
    CASE l \in {"_task_generation_loop", "_task_execution_loop"} -> {FALSE}
      [] l = "_system_monitoring_loop" -> {TRUE}
      [] OTHER -> BOOLEAN

\* a loop is in its body, in the sleep of the try, in the sleep of the except
\* clause, or has ended; `after` tells how the previous iteration ended
LoopAt(pc, after, sleep) == [pc |-> pc, after |-> after, sleep |-> sleep]

LoopsStarted == [l \in Loops |-> LoopAt("body", "start", 0)]

\* a loop whose except clause re-raises
loop_body_ends_loop(l, raised) ==
    /\ loops[l].pc = "body"
    /\ raised \in BodyRaises(l)
    /\ loops' = [loops EXCEPT ![l] =
                    IF raised THEN LoopAt("ended", "raise", 0)
                    ELSE LoopAt("sleep", "return", Interval(l))]
    /\ UNCHANGED <<now, emergency_mode_active, recovery_vars, modification_vars>>

\* the body of an iteration returns or raises; the loop goes to sleep
loop_body(l, raised) ==
    /\ loops[l].pc = "body"
    /\ raised \in BodyRaises(l)
    /\ loops' = [loops EXCEPT ![l] =
                    IF raised THEN LoopAt("backoff", "raise", Backoff(l))
                    ELSE LoopAt("sleep", "return", Interval(l))]
    /\ UNCHANGED <<now, emergency_mode_active, recovery_vars, modification_vars>>

\* asyncio.sleep returns and the next iteration begins
loop_wakes(l) ==
    /\ loops[l].pc \in {"sleep", "backoff"}
    /\ loops' = [loops EXCEPT ![l] = LoopAt("body", loops[l].after, 0)]
    /\ UNCHANGED <<now, emergency_mode_active, recovery_vars, modification_vars>>

----------------------------------------------------------------------------
(* Bounds of the model *)

MaxTime == 1
MaxReports == 2

----------------------------------------------------------------------------
(* Enumerations *)

ErrorSeverity == {"critical", "high", "medium", "low"}

ErrorCategory == {"provider_failure", "memory_system", "mcp_server",
                  "database_connection", "network_timeout", "configuration",
                  "dependency_missing", "performance_degradation",
                  "authentication", "resource_exhaustion"}

RecoveryAction == {"restart_service", "failover_provider", "clear_cache",
                   "reset_connection", "install_dependency", "rollback_config",
                   "scale_resources", "switch_mcp_server", "emergency_mode",
                   "restart_component"}

NoTime == -1

max_concurrent_recoveries == 3

----------------------------------------------------------------------------
(* Text: str.lower(), the `in` substring test and re.search on word sequences *)

LowerWord(w) ==
    CASE w = "CRITICAL" -> "critical"
      [] w = "Timeout"  -> "timeout"
      [] w = "Memory"   -> "memory"
      [] OTHER          -> w

Lower(msg) == [i \in 1..Len(msg) |-> LowerWord(msg[i])]

\* the keywords that occur as substrings of a lower-case word
KeywordsIn(w) ==
    CASE w = "authentication" -> {"authentication", "auth"}
      [] w = "settings"       -> {"settings", "setting"}
      [] OTHER                -> {w}

\* term in text, for a one-word term
Contains(text, term) == \E i \in 1..Len(text) : term \in KeywordsIn(text[i])

\* term in text, for the two-word term "a b"
ContainsPair(text, a, b) ==
    \E i \in 1..(Len(text) - 1) : text[i] = a /\ text[i + 1] = b

\* re.search("a.*b", text)
SearchThen(text, a, b) ==
    \E i \in 1..Len(text) : \E j \in (i + 1)..Len(text) :
        a \in KeywordsIn(text[i]) /\ b \in KeywordsIn(text[j])

\* a classification that compares the terms with the message as written
classify_error_severity_case_sensitive(error_message) ==
    LET m == error_message IN
    IF \/ \E term \in {"critical", "fatal", "crash"} : Contains(m, term)
       \/ ContainsPair(m, "system", "failure")
    THEN "critical"
    ELSE IF \E term \in {"connection", "timeout", "authentication", "permission"} :
                Contains(m, term)
    THEN "high"
    ELSE IF \E term \in {"error", "failed", "exception"} : Contains(m, term)
    THEN "medium"
    ELSE "low"

classify_error_severity(error_message) ==
    LET m == Lower(error_message) IN
    IF \/ \E term \in {"critical", "fatal", "crash"} : Contains(m, term)
       \/ ContainsPair(m, "system", "failure")
    THEN "critical"
    ELSE IF \E term \in {"connection", "timeout", "authentication", "permission"} :
                Contains(m, term)
    THEN "high"
    ELSE IF \E term \in {"error", "failed", "exception"} : Contains(m, term)
    THEN "medium"
    ELSE "low"

\* a classification that tests the resource group ahead of the others
classify_error_category_resources_first(error_message) ==
    LET m == Lower(error_message) IN
    IF Contains(m, "memory") \/ Contains(m, "disk") \/ Contains(m, "resource")
    THEN "resource_exhaustion"
    ELSE IF Contains(m, "provider") \/ Contains(m, "completion") THEN "provider_failure"
    ELSE IF Contains(m, "cache") THEN "memory_system"
    ELSE IF Contains(m, "mcp") \/ Contains(m, "server") THEN "mcp_server"
    ELSE IF Contains(m, "database") \/ Contains(m, "sql") THEN "database_connection"
    ELSE IF Contains(m, "timeout") \/ Contains(m, "network") THEN "network_timeout"
    ELSE IF Contains(m, "config") \/ Contains(m, "setting") THEN "configuration"
    ELSE IF Contains(m, "dependency") \/ Contains(m, "import") THEN "dependency_missing"
    ELSE IF Contains(m, "performance") \/ Contains(m, "slow")
    THEN "performance_degradation"
    ELSE IF Contains(m, "auth") \/ Contains(m, "token") THEN "authentication"
    ELSE "configuration"

classify_error_category(error_message) ==
    LET m == Lower(error_message) IN
    IF Contains(m, "provider") \/ Contains(m, "completion") THEN "provider_failure"
    ELSE IF Contains(m, "memory") \/ Contains(m, "cache") THEN "memory_system"
    ELSE IF Contains(m, "mcp") \/ Contains(m, "server") THEN "mcp_server"
    ELSE IF Contains(m, "database") \/ Contains(m, "sql") THEN "database_connection"
    ELSE IF Contains(m, "timeout") \/ Contains(m, "network") THEN "network_timeout"
    ELSE IF Contains(m, "config") \/ Contains(m, "setting") THEN "configuration"
    ELSE IF Contains(m, "dependency") \/ Contains(m, "import") THEN "dependency_missing"
    ELSE IF Contains(m, "performance") \/ Contains(m, "slow")
    THEN "performance_degradation"
    ELSE IF Contains(m, "auth") \/ Contains(m, "token") THEN "authentication"
    ELSE IF Contains(m, "memory") \/ Contains(m, "disk") \/ Contains(m, "resource")
    THEN "resource_exhaustion"
    ELSE "configuration"

----------------------------------------------------------------------------
(* The signals the probes report *)

MsgCriticalProvider == <<"CRITICAL", "Timeout", "provider">>
MsgMemoryError == <<"Memory", "error">>
MsgDatabaseError == <<"database", "error">>
MsgDatabaseFailed == <<"database", "failed">>

Signals ==
    { [component |-> "api", error_type |-> "application_error",
       message |-> MsgCriticalProvider, stack_trace |-> "",
       metadata |-> {<<"level", "CRITICAL">>}],
      [component |-> "api", error_type |-> "application_error",
       message |-> MsgDatabaseError, stack_trace |-> "Traceback",
       metadata |-> {<<"level", "ERROR">>}],
      [component |-> "api", error_type |-> "application_error",
       message |-> MsgDatabaseFailed, stack_trace |-> "",
       metadata |-> {<<"level", "WARNING">>}],
      [component |-> "cache", error_type |-> "component_check_failure",
       message |-> MsgMemoryError, stack_trace |-> "Traceback", metadata |-> {}] }

\* hash(error_message) % 10000 is not injective: two of the messages collide
HashMod(message) ==
    CASE message = MsgCriticalProvider -> 4711
      [] message = MsgDatabaseError    -> 815
      [] message = MsgDatabaseFailed   -> 815
      [] OTHER                         -> 42

error_signature(s) == <<s.component, s.error_type, HashMod(s.message)>>

error_id(s, t) == <<s.component, s.error_type, t>>

----------------------------------------------------------------------------
(* The rule registry *)

Rule(name, pattern, category, severity, actions, cooldown, attempts) ==
    [name |-> name, error_pattern |-> pattern, category |-> category,
     severity |-> severity, actions |-> actions, max_attempts |-> attempts,
     cooldown_minutes |-> cooldown,
     success_rate_threshold |-> 7,       \* in tenths: 0.7
     enabled |-> TRUE, last_used |-> NoTime,
     success_count |-> 0, failure_count |-> 0]

create_recovery_rules ==
    << Rule("provider_timeout_failover", "timeout.*provider", "provider_failure",
            "high", <<"failover_provider", "reset_connection">>, 5, 3),
       Rule("memory_cache_clear", "memory|cache", "memory_system",
            "medium", <<"clear_cache", "scale_resources">>, 10, 3),
       Rule("database_reconnect", "database|connection.*lost", "database_connection",
            "high", <<"reset_connection", "restart_service">>, 5, 3),
       Rule("mcp_server_switch", "mcp.*server|tool.*failed", "mcp_server",
            "medium", <<"switch_mcp_server", "restart_component">>, 15, 3),
       Rule("performance_optimization", "slow|performance|degradation",
            "performance_degradation",
            "medium", <<"scale_resources", "clear_cache">>, 20, 3),
       Rule("critical_emergency_mode", "critical|fatal|system.*failure",
            "provider_failure",
            "critical", <<"emergency_mode", "rollback_config">>, 30, 1) >>

RuleIds == 1..Len(create_recovery_rules)

\* re.search(rule.error_pattern, error_message, re.IGNORECASE)
\* re.search without re.IGNORECASE
PatternMatchesCaseSensitive(pattern, message) ==
    LET m == message IN
    CASE pattern = "timeout.*provider" -> SearchThen(m, "timeout", "provider")
      [] pattern = "memory|cache" -> Contains(m, "memory") \/ Contains(m, "cache")
      [] pattern = "database|connection.*lost" ->
            Contains(m, "database") \/ SearchThen(m, "connection", "lost")
      [] pattern = "mcp.*server|tool.*failed" ->
            SearchThen(m, "mcp", "server") \/ SearchThen(m, "tool", "failed")
      [] pattern = "slow|performance|degradation" ->
            Contains(m, "slow") \/ Contains(m, "performance")
                \/ Contains(m, "degradation")
      [] pattern = "critical|fatal|system.*failure" ->
            Contains(m, "critical") \/ Contains(m, "fatal")
                \/ SearchThen(m, "system", "failure")
      [] OTHER -> FALSE

\* re.search(pattern, message, re.IGNORECASE) for the patterns of the registry
PatternMatches(pattern, message) ==
    LET m == Lower(message) IN
    CASE pattern = "timeout.*provider" -> SearchThen(m, "timeout", "provider")
      [] pattern = "memory|cache" -> Contains(m, "memory") \/ Contains(m, "cache")
      [] pattern = "database|connection.*lost" ->
            Contains(m, "database") \/ SearchThen(m, "connection", "lost")
      [] pattern = "mcp.*server|tool.*failed" ->
            SearchThen(m, "mcp", "server") \/ SearchThen(m, "tool", "failed")
      [] pattern = "slow|performance|degradation" ->
            Contains(m, "slow") \/ Contains(m, "performance")
                \/ Contains(m, "degradation")
      [] pattern = "critical|fatal|system.*failure" ->
            Contains(m, "critical") \/ Contains(m, "fatal")
                \/ SearchThen(m, "system", "failure")
      [] OTHER -> FALSE

severity_levels(sev) ==
    CASE sev = "low" -> 1 [] sev = "medium" -> 2 [] sev = "high" -> 3 [] OTHER -> 4

RuleMatches(rule, event) ==
    /\ rule.enabled
    /\ rule.category = event.category
    /\ (rule.error_pattern = "" \/ PatternMatches(rule.error_pattern, event.error_message))
    /\ severity_levels(event.severity) >= severity_levels(rule.severity)

\* the ids of the matching rules, in registry order
find_recovery_rules(rules, event) ==
    SelectSeq([i \in 1..Len(rules) |-> i], LAMBDA i : RuleMatches(rules[i], event))

\* key=lambda r: (r.success_rate_threshold, -len(r.actions))
KeyLess(a, b) ==
    \/ a.success_rate_threshold < b.success_rate_threshold
    \/ /\ a.success_rate_threshold = b.success_rate_threshold
       /\ Len(a.actions) > Len(b.actions)

\* list.sort is stable: an element goes behind the elements it is not less than
InsertStable(rules, sorted, i) ==
    LET before == {j \in 1..Len(sorted) :
                      \A k \in 1..j : ~KeyLess(rules[i], rules[sorted[k]])}
        n == Cardinality(before)
    IN SubSeq(sorted, 1, n) \o <<i>> \o SubSeq(sorted, n + 1, Len(sorted))

RECURSIVE SortRules(_, _)
SortRules(rules, ids) ==
    IF ids = <<>> THEN <<>>
    ELSE InsertStable(rules, SortRules(rules, SubSeq(ids, 1, Len(ids) - 1)),
                      ids[Len(ids)])

\* a success-rate test that does not wait for 10 attempts
should_apply_rule_from_first_attempt(rule, t) ==
    LET total_attempts == rule.success_count + rule.failure_count IN
    /\ ~(rule.last_used # NoTime /\ t - rule.last_used < rule.cooldown_minutes)
    /\ ~(/\ total_attempts >= 1
         /\ rule.success_count * 10 < rule.success_rate_threshold * total_attempts)

\* an admission check that looks at the cooldown only
should_apply_rule_cooldown_only(rule, t) ==
    ~(rule.last_used # NoTime /\ t - rule.last_used < rule.cooldown_minutes)

should_apply_rule(rule, t) ==
    LET total_attempts == rule.success_count + rule.failure_count IN
    /\ ~(rule.last_used # NoTime /\ t - rule.last_used < rule.cooldown_minutes)
    /\ ~(/\ total_attempts >= 10
         /\ rule.success_count * 10 < rule.success_rate_threshold * total_attempts)

\* a selection that goes through all the matching rules
RuleToStartOfAll(rules, event, t) ==
    LET sorted == SortRules(rules, find_recovery_rules(rules, event))
        ok == {k \in 1..Len(sorted) : should_apply_rule(rules[sorted[k]], t)}
    IN IF ok = {} THEN 0
       ELSE sorted[CHOOSE k \in ok : \A l \in ok : k <= l]

\* the rule _attempt_recovery starts for the event: the first of the top 3 that
\* passes _should_apply_rule, or 0 when there is none
RuleToStart(rules, event, t) ==
    LET sorted == SortRules(rules, find_recovery_rules(rules, event))
        top == SubSeq(sorted, 1, IF Len(sorted) < 3 THEN Len(sorted) ELSE 3)
        ok == {k \in 1..Len(top) : should_apply_rule(rules[top[k]], t)}
    IN IF ok = {} THEN 0
       ELSE top[CHOOSE k \in ok : \A l \in ok : k <= l]

----------------------------------------------------------------------------
(* ErrorRecoverySystem: state after construction *)

Idle == [stage |-> "idle"]

InitRecovery ==
    /\ error_events = <<>>
    /\ recovery_rules = create_recovery_rules
    /\ active_recoveries = {}
    /\ reporting = Idle
    /\ execs = EmptyBag
    /\ last_selected = [r \in RuleIds |-> NoTime]
    /\ finished = [r \in RuleIds |-> 0]
    /\ reported = [s \in Signals |-> [n |-> 0, at |-> NoTime]]

Signatures == DOMAIN error_events

RECURSIVE SumOver(_, _)
SumOver(S, f) ==
    IF S = {} THEN 0
    ELSE LET x == CHOOSE y \in S : TRUE IN f[x] + SumOver(S \ {x}, f)

\* number of _process_error_event calls made so far
TotalReports == SumOver(Signatures, [g \in Signatures |-> error_events[g].recurrence_count])

InFlight == BagCardinality(execs)

\* an event constructed without its timestamp
NewErrorEventWithoutTimestamp(s, severity, category) ==
    [id |-> error_id(s, now), timestamp |-> NoTime, error_type |-> s.error_type,
     error_message |-> s.message, stack_trace |-> s.stack_trace,
     metadata |-> s.metadata, severity |-> severity, category |-> category,
     component |-> s.component, resolved |-> FALSE, resolution_timestamp |-> NoTime,
     recovery_actions_taken |-> <<>>, recurrence_count |-> 1]

NewErrorEvent(s, severity, category) ==
    [id |-> error_id(s, now), timestamp |-> now, error_type |-> s.error_type,
     error_message |-> s.message, stack_trace |-> s.stack_trace,
     metadata |-> s.metadata, severity |-> severity, category |-> category,
     component |-> s.component, resolved |-> FALSE, resolution_timestamp |-> NoTime,
     recovery_actions_taken |-> <<>>, recurrence_count |-> 1]

\* the severity local after the recurrence check of a stored signature
EscalatedSeverity(severity, recurrence_count) ==
    IF recurrence_count > 5
    THEN IF severity = "medium" THEN "high" ELSE "critical"
    ELSE severity

\* a merge that forgets to refresh the timestamp
MergedEventsStaleTimestamp(events, sig, s, severity, category) ==
    IF sig \in DOMAIN events
    THEN [events EXCEPT ![sig].recurrence_count = @ + 1]
    ELSE [g \in DOMAIN events \cup {sig} |->
             IF g = sig THEN NewErrorEvent(s, severity, category) ELSE events[g]]

\* a merge that reopens the event it finds
MergedEventsReopening(events, sig, s, severity, category) ==
    IF sig \in DOMAIN events
    THEN [events EXCEPT ![sig].recurrence_count = @ + 1, ![sig].timestamp = now,
                        ![sig].resolved = FALSE,
                        ![sig].resolution_timestamp = NoTime]
    ELSE [g \in DOMAIN events \cup {sig} |->
             IF g = sig THEN NewErrorEvent(s, severity, category) ELSE events[g]]

\* a merge that stores the reported occurrence in place of the first one
MergedEventsLatestOccurrence(events, sig, s, severity, category) ==
    IF sig \in DOMAIN events
    THEN [events EXCEPT ![sig] =
             [NewErrorEvent(s, severity, category) EXCEPT
                 !.recurrence_count = events[sig].recurrence_count + 1,
                 !.resolved = events[sig].resolved,
                 !.resolution_timestamp = events[sig].resolution_timestamp,
                 !.severity = events[sig].severity]]
    ELSE [g \in DOMAIN events \cup {sig} |->
             IF g = sig THEN NewErrorEvent(s, severity, category) ELSE events[g]]

\* the event table after the dedup / merge of _process_error_event
MergedEvents(events, sig, s, severity, category) ==
    IF sig \in DOMAIN events
    THEN [events EXCEPT ![sig].recurrence_count = @ + 1, ![sig].timestamp = now]
    ELSE [g \in DOMAIN events \cup {sig} |->
             IF g = sig THEN NewErrorEvent(s, severity, category) ELSE events[g]]

\* _process_error_event up to the await of memory.store_context, which either
\* returns (persisted) or raises (the handler then ends in its except clause)
process_error_event_store(s, persisted) ==
    LET sig == error_signature(s)
        severity == classify_error_severity(s.message)
        category == classify_error_category(s.message)
        merged == MergedEvents(error_events, sig, s, severity, category)
    IN /\ reporting.stage = "idle"
       /\ reported' = [reported EXCEPT ![s] = [n |-> @.n + 1, at |-> now]]
       /\ error_events' = merged
       /\ reporting' =
            IF persisted
            THEN [stage |-> "stored", sig |-> sig,
                  severity |-> IF sig \in Signatures
                               THEN EscalatedSeverity(severity,
                                                      merged[sig].recurrence_count)
                               ELSE severity]
            ELSE Idle
       /\ UNCHANGED <<now, recovery_rules, active_recoveries,
                      emergency_mode_active, execs, last_selected, finished>>
       /\ UNCHANGED <<modification_vars, loops>>

NewExec(sig, r) == [ev |-> sig, rule |-> r, pc |-> "created", i |-> 0, success |-> TRUE]

\* an admission test that does not look at the emergency flag
MayAttemptRecoveryInEmergency ==
    Cardinality(active_recoveries) < max_concurrent_recoveries

\* the admission test of _process_error_event
MayAttemptRecovery ==
    /\ ~emergency_mode_active
    /\ Cardinality(active_recoveries) < max_concurrent_recoveries

\* _process_error_event after store_context returned: the admission test and
\* _attempt_recovery, which creates at most one detached execution
process_error_event_admit ==
    LET sig == reporting.sig
        event == error_events[sig]
        r == RuleToStart(recovery_rules, event, now)
    IN /\ reporting.stage = "stored"
       /\ reporting' = Idle
       /\ IF MayAttemptRecovery /\ r # 0
          THEN /\ execs' = execs (+) SetToBag({NewExec(sig, r)})
               /\ active_recoveries' = active_recoveries \cup {event.id}
               /\ last_selected' = [last_selected EXCEPT ![r] = now]
          ELSE UNCHANGED <<execs, active_recoveries, last_selected>>
       /\ UNCHANGED <<now, error_events, recovery_rules,
                      emergency_mode_active, finished, reported>>
       /\ UNCHANGED <<modification_vars, loops>>

----------------------------------------------------------------------------
(* _execute_recovery_rule, one step per suspension point *)

Replace(bag, old, new) == (bag (-) SetToBag({old})) (+) SetToBag({new})

\* the recovery actions that wait for an external call (memory.clear_cache_tier,
\* asyncio.sleep); the others return at once
Suspends(action) == action \in {"clear_cache", "restart_service"}

\* the results a recovery action can report: only _clear_cache has a failing path
ActionResults(action) ==
    IF action = "clear_cache" THEN {TRUE, FALSE} ELSE {TRUE}

\* the first action at or after position i that suspends, Len + 1 if there is none
NextSuspension(actions, i) ==
    LET S == {j \in i..Len(actions) : Suspends(actions[j])}
    IN IF S = {} THEN Len(actions) + 1 ELSE CHOOSE j \in S : \A k \in S : j <= k

\* statistics that switch a rule off once it has failed
UpdatedStatisticsDisabling(rules, r, success) ==
    IF success
    THEN [rules EXCEPT ![r].success_count = @ + 1]
    ELSE [rules EXCEPT ![r].failure_count = @ + 1, ![r].enabled = FALSE]

\* the rule statistics after the action loop
UpdatedStatistics(rules, r, success) ==
    IF success
    THEN [rules EXCEPT ![r].success_count = @ + 1]
    ELSE [rules EXCEPT ![r].failure_count = @ + 1]

\* the action loop records the awaited action that returned, if any, and runs on
\* from position i to its next suspension point; the actions in between succeed; past the last action the
\* statistics are updated and the event is marked resolved
RunLoop(x, rules, returned, i) ==
    LET actions == rules[x.rule].actions
        j == NextSuspension(actions, i)
        done == returned \o SubSeq(actions, i, j - 1)
        finishes == j > Len(actions)
    IN /\ emergency_mode_active' =
            (emergency_mode_active \/ \E k \in 1..Len(done) : done[k] = "emergency_mode")
       /\ error_events' =
            [error_events EXCEPT
                ![x.ev].recovery_actions_taken = @ \o done,
                ![x.ev].resolved = IF finishes THEN TRUE ELSE @,
                ![x.ev].resolution_timestamp = IF finishes THEN now ELSE @]
       /\ recovery_rules' =
            IF finishes THEN UpdatedStatistics(rules, x.rule, TRUE) ELSE rules
       /\ execs' = Replace(execs, x,
                           IF finishes THEN [x EXCEPT !.pc = "store", !.i = j]
                           ELSE [x EXCEPT !.pc = "await", !.i = j])

\* the detached coroutine starts: rule.last_used = datetime.now(), then the loop
execute_recovery_rule_start(x) ==
    /\ x \in BagToSet(execs)
    /\ x.pc = "created"
    /\ RunLoop(x, [recovery_rules EXCEPT ![x.rule].last_used = now], <<>>, 1)
    /\ UNCHANGED <<now, active_recoveries, reporting, last_selected, finished,
                   reported>>
    /\ UNCHANGED <<modification_vars, loops>>

\* a loop without the break: a failed action marks the rule failed, and the
\* actions after it are executed all the same
execute_recovery_action_without_break(x, result) ==
    LET actions == recovery_rules[x.rule].actions IN
    /\ x \in BagToSet(execs)
    /\ x.pc = "await"
    /\ result \in ActionResults(actions[x.i])
    /\ IF result
       THEN RunLoop(x, recovery_rules, <<actions[x.i]>>, x.i + 1)
       ELSE /\ recovery_rules' = UpdatedStatistics(recovery_rules, x.rule, FALSE)
            /\ error_events' =
                 [error_events EXCEPT ![x.ev].recovery_actions_taken =
                     @ \o SubSeq(actions, x.i + 1, Len(actions))]
            /\ execs' = Replace(execs, x, [x EXCEPT !.pc = "store", !.success = FALSE,
                                                    !.i = Len(actions) + 1])
            /\ UNCHANGED emergency_mode_active
    /\ UNCHANGED <<now, active_recoveries, reporting, last_selected, finished,
                   reported>>
    /\ UNCHANGED <<modification_vars, loops>>

\* the awaited action returns its result: a failure breaks the loop
execute_recovery_action(x, result) ==
    LET action == recovery_rules[x.rule].actions[x.i] IN
    /\ x \in BagToSet(execs)
    /\ x.pc = "await"
    /\ result \in ActionResults(action)
    /\ IF result
       THEN RunLoop(x, recovery_rules, <<action>>, x.i + 1)
       ELSE /\ recovery_rules' = UpdatedStatistics(recovery_rules, x.rule, FALSE)
            /\ execs' = Replace(execs, x, [x EXCEPT !.pc = "store", !.success = FALSE])
            /\ UNCHANGED <<error_events, emergency_mode_active>>
    /\ UNCHANGED <<now, active_recoveries, reporting, last_selected, finished,
                   reported>>
    /\ UNCHANGED <<modification_vars, loops>>

\* the rule statistics after memory.store_context returned or raised
StatisticsAfterStore(rules, r, persisted) ==
    IF persisted THEN rules ELSE [rules EXCEPT ![r].failure_count = @ + 1]

\* an engine that runs a failed rule again for the same event
execute_recovery_rule_store_and_retry(x, persisted) ==
    /\ x \in BagToSet(execs)
    /\ x.pc = "store"
    /\ recovery_rules' = StatisticsAfterStore(recovery_rules, x.rule, persisted)
    /\ IF x.success
       THEN /\ active_recoveries' = active_recoveries \ {error_events[x.ev].id}
            /\ execs' = execs (-) SetToBag({x})
       ELSE /\ active_recoveries' = active_recoveries
            /\ execs' = Replace(execs, x, NewExec(x.ev, x.rule))
    /\ finished' = [finished EXCEPT ![x.rule] = @ + 1]
    /\ UNCHANGED <<now, error_events, emergency_mode_active, reporting, last_selected,
                   reported>>
    /\ UNCHANGED <<modification_vars, loops>>

\* an engine that leaves emergency mode when a recovery has succeeded
execute_recovery_rule_store_leaving_emergency(x, persisted) ==
    /\ x \in BagToSet(execs)
    /\ x.pc = "store"
    /\ recovery_rules' = StatisticsAfterStore(recovery_rules, x.rule, persisted)
    /\ active_recoveries' = active_recoveries \ {error_events[x.ev].id}
    /\ execs' = execs (-) SetToBag({x})
    /\ finished' = [finished EXCEPT ![x.rule] = @ + 1]
    /\ emergency_mode_active' = (emergency_mode_active /\ ~x.success)
    /\ UNCHANGED <<now, error_events, reporting, last_selected, reported>>
    /\ UNCHANGED <<modification_vars, loops>>

\* an execution without the finally clause: the entry stays when the storing of
\* the outcome raises
execute_recovery_rule_store_keeping_entry(x, persisted) ==
    /\ x \in BagToSet(execs)
    /\ x.pc = "store"
    /\ recovery_rules' = StatisticsAfterStore(recovery_rules, x.rule, persisted)
    /\ active_recoveries' = IF persisted
                            THEN active_recoveries \ {error_events[x.ev].id}
                            ELSE active_recoveries
    /\ execs' = execs (-) SetToBag({x})
    /\ finished' = [finished EXCEPT ![x.rule] = @ + 1]
    /\ UNCHANGED <<now, error_events, emergency_mode_active, reporting, last_selected,
                   reported>>
    /\ UNCHANGED <<modification_vars, loops>>

\* memory.store_context returns or raises, then the finally clause
execute_recovery_rule_store(x, persisted) ==
    /\ x \in BagToSet(execs)
    /\ x.pc = "store"
    /\ recovery_rules' = StatisticsAfterStore(recovery_rules, x.rule, persisted)
    /\ active_recoveries' = active_recoveries \ {error_events[x.ev].id}
    /\ execs' = execs (-) SetToBag({x})
    /\ finished' = [finished EXCEPT ![x.rule] = @ + 1]
    /\ UNCHANGED <<now, error_events, emergency_mode_active, reporting, last_selected,
                   reported>>
    /\ UNCHANGED <<modification_vars, loops>>

----------------------------------------------------------------------------
(* AutoGenSelfModificationSystem *)

max_concurrent_modifications == 2

NoTask == [stage |-> "idle"]

NoneFinished == [status |-> "none", pc |-> "none"]

\* the latest step read no status snapshot
NoAnalysis == [read |-> FALSE]

\* the latest step ended no task but caught an exception in _rollback_modifications
RollbackRaised == [status |-> "raised", pc |-> "rollback"]

InitModification(safety, rollback) ==
    /\ safety_checks_enabled \in safety
    /\ auto_rollback_on_failure \in rollback
    /\ tasks = <<>>
    /\ task_queue = <<>>
    /\ active_tasks = {}
    /\ completed_tasks = <<>>
    /\ task_runs = <<>>
    /\ generation = NoTask
    /\ cycles = 0
    /\ rejected = {}
    /\ last_finished = NoneFinished
    /\ analysis = NoAnalysis

Range(seq) == {seq[i] : i \in 1..Len(seq)}

ModificationTask(prefix, task_type, scope, priority, target_files, cycle, k) ==
    [id |-> <<prefix, cycle>>, task_type |-> task_type, scope |-> scope,
     priority |-> priority, target_files |-> target_files,
     created_at |-> 4 * cycle + k, status |-> "pending",
     actual_duration |-> NoTime, test_results |-> <<>>]

create_performance_task(cycle) ==
    ModificationTask("perf", "performance_enhancement", "subsystem", 2,
                     {"memory/enhanced_memory.py", "chat/enhanced_completion.py"},
                     cycle, 0)

create_error_resolution_task(cycle) ==
    ModificationTask("error", "bug_fix", "module", 1,
                     {"automation/error_recovery.py"}, cycle, 1)

create_config_optimization_task(cycle) ==
    ModificationTask("config", "configuration_tuning", "system_wide", 3,
                     {"config/settings.py", "automation/dynamic_config.py"}, cycle, 2)

create_mcp_improvement_task(cycle) ==
    ModificationTask("mcp", "integration_addition", "subsystem", 4,
                     {"automation/mcp_discovery.py", "mcp/installer.py"}, cycle, 3)

\* the status snapshots one generation cycle reads
StatusSnapshots ==
    [system_health : {"poor", "good"},
     unresolved_errors : {5, 6},
     pending_changes : {10, 11},
     installation_success_rate : {79, 80}]      \* in hundredths

\* a generation whose error and configuration triggers fire at the threshold
NewTasksAtThreshold(status, cycle) ==
    (IF status.system_health = "poor"
     THEN <<create_performance_task(cycle)>> ELSE <<>>)
    \o (IF status.unresolved_errors >= 5
        THEN <<create_error_resolution_task(cycle)>> ELSE <<>>)
    \o (IF status.pending_changes >= 10
        THEN <<create_config_optimization_task(cycle)>> ELSE <<>>)
    \o (IF status.installation_success_rate < 80
        THEN <<create_mcp_improvement_task(cycle)>> ELSE <<>>)

\* new_tasks of _generate_modification_tasks: one candidate per breached threshold
NewTasks(status, cycle) ==
    (IF status.system_health = "poor"
     THEN <<create_performance_task(cycle)>> ELSE <<>>)
    \o (IF status.unresolved_errors > 5
        THEN <<create_error_resolution_task(cycle)>> ELSE <<>>)
    \o (IF status.pending_changes > 10
        THEN <<create_config_optimization_task(cycle)>> ELSE <<>>)
    \o (IF status.installation_success_rate < 80
        THEN <<create_mcp_improvement_task(cycle)>> ELSE <<>>)

\* a validation that looks at the active tasks only
validate_task_active_only(task) ==
    /\ ~\E id \in active_tasks :
            /\ tasks[id].task_type = task.task_type
            /\ tasks[id].scope = task.scope
            /\ tasks[id].status \in {"pending", "in_progress"}
    /\ ~\E id \in active_tasks : tasks[id].target_files \cap task.target_files # {}

validate_task(task) ==
    /\ ~\E id \in Range(task_queue) \cup active_tasks :
            /\ tasks[id].task_type = task.task_type
            /\ tasks[id].scope = task.scope
            /\ tasks[id].status \in {"pending", "in_progress"}
    /\ ~\E id \in active_tasks : tasks[id].target_files \cap task.target_files # {}

\* the candidates up to and including the first one _validate_task accepts
FirstAccepted(candidates) ==
    LET ok == {i \in 1..Len(candidates) : validate_task(candidates[i])}
    IN IF ok = {} THEN 0 ELSE CHOOSE i \in ok : \A j \in ok : i <= j

\* the loop over new_tasks, run to its next await of memory.store_context
EnqueueNext(candidates, refused) ==
    LET n == FirstAccepted(candidates)
        skipped == {candidates[i].id : i \in 1..(IF n = 0 THEN Len(candidates) ELSE n - 1)}
    IN /\ rejected' = IF n = 0 THEN {} ELSE refused \cup skipped
       /\ IF n = 0
          THEN /\ generation' = NoTask
               /\ UNCHANGED <<tasks, task_queue>>
          ELSE /\ tasks' = [id \in DOMAIN tasks \cup {candidates[n].id} |->
                               IF id = candidates[n].id THEN candidates[n] ELSE tasks[id]]
               /\ task_queue' = Append(task_queue, candidates[n].id)
               /\ generation' = [stage |-> "storing",
                                 rest |-> SubSeq(candidates, n + 1, Len(candidates))]

\* _generate_modification_tasks from its start, for the candidates it built; reading
\* a status may raise, which ends the cycle with nothing generated
generate_candidates(candidates, readable) ==
    /\ generation.stage = "idle"
    /\ cycles' = cycles + 1
    /\ IF readable
       THEN EnqueueNext(candidates, {})
       ELSE /\ rejected' = {}
            /\ UNCHANGED <<tasks, task_queue, generation>>
    /\ UNCHANGED <<safety_checks_enabled, auto_rollback_on_failure, active_tasks,
                   completed_tasks, task_runs>>
    /\ last_finished' = NoneFinished
    /\ UNCHANGED <<now, emergency_mode_active, recovery_vars, loops>>

generate_modification_tasks(status, readable) ==
    /\ generate_candidates(NewTasks(status, cycles + 1), readable)
    /\ analysis' = IF readable
                   THEN [read |-> TRUE, status |-> status,
                         new_tasks |-> NewTasks(status, cycles + 1)]
                   ELSE NoAnalysis

\* memory.store_context returns and the loop goes on, or raises and the cycle ends
generate_modification_tasks_store(persisted) ==
    /\ generation.stage = "storing"
    /\ IF persisted
       THEN EnqueueNext(generation.rest, rejected)
       ELSE /\ generation' = NoTask
            /\ rejected' = {}
            /\ UNCHANGED <<tasks, task_queue>>
    /\ UNCHANGED <<safety_checks_enabled, auto_rollback_on_failure, active_tasks,
                   completed_tasks, task_runs, cycles>>
    /\ last_finished' = NoneFinished
    /\ analysis' = NoAnalysis
    /\ UNCHANGED <<now, emergency_mode_active, recovery_vars, loops>>

\* a key that forgets the priority
TaskKeyLessByAge(a, b) == a.created_at < b.created_at

\* key=lambda t: (t.priority, t.created_at)
TaskKeyLess(a, b) ==
    \/ a.priority < b.priority
    \/ a.priority = b.priority /\ a.created_at < b.created_at

InsertTask(sorted, id) ==
    LET before == {j \in 1..Len(sorted) :
                      \A k \in 1..j : ~TaskKeyLess(tasks[id], tasks[sorted[k]])}
        n == Cardinality(before)
    IN SubSeq(sorted, 1, n) \o <<id>> \o SubSeq(sorted, n + 1, Len(sorted))

RECURSIVE SortTasks(_)
SortTasks(ids) ==
    IF ids = <<>> THEN <<>>
    ELSE InsertTask(SortTasks(SubSeq(ids, 1, Len(ids) - 1)), ids[Len(ids)])

\* the coroutine of an admitted task before its first step; admitted_at notes
\* the time at which the task was made in_progress
NewRun == [pc |-> "created", start_time |-> NoTime, success |-> FALSE,
           admitted_at |-> now]

\* a slice that always takes max_concurrent_modifications tasks
FreeSlotsIgnoringActive == max_concurrent_modifications

\* self.max_concurrent_modifications - len(self.active_tasks)
FreeSlots == max_concurrent_modifications - Cardinality(active_tasks)

\* one scheduling pass of _execute_pending_tasks
execute_pending_tasks ==
    LET sorted == SortTasks(task_queue)
        free == FreeSlots
        n == IF Len(sorted) < free THEN Len(sorted) ELSE free
        admitted == Range(SubSeq(sorted, 1, n))
    IN /\ Cardinality(active_tasks) < max_concurrent_modifications
       /\ task_queue # <<>>
       /\ task_queue' = SubSeq(sorted, n + 1, Len(sorted))
       /\ active_tasks' = active_tasks \cup admitted
       /\ tasks' = [id \in DOMAIN tasks |->
                       IF id \in admitted THEN [tasks[id] EXCEPT !.status = "in_progress"]
                       ELSE tasks[id]]
       /\ task_runs' = [id \in DOMAIN task_runs \cup admitted |->
                           IF id \in admitted THEN NewRun ELSE task_runs[id]]
       /\ UNCHANGED <<safety_checks_enabled, auto_rollback_on_failure, completed_tasks,
                      generation, cycles, rejected>>
       /\ last_finished' = NoneFinished
       /\ analysis' = NoAnalysis
       /\ UNCHANGED <<now, emergency_mode_active, recovery_vars, loops>>

\* psutil.cpu_percent() and psutil.virtual_memory().percent
ResourceReadings == [cpu : {90, 91}, memory : {95, 96}]

\* a pre-check that reads the resource usage only
perform_safety_checks_resources_only(id, usage) ==
    ~(usage.cpu > 90 \/ usage.memory > 95)

perform_safety_checks(id, usage) ==
    /\ ~(usage.cpu > 90 \/ usage.memory > 95)
    /\ ~emergency_mode_active
    /\ ~\E other \in active_tasks :
            tasks[other].target_files \cap tasks[id].target_files # {}

\* an end of the coroutine that forgets the finally clause
FinishKeepingSlot(id, status) ==
    LET kept == IF id \in Range(completed_tasks) THEN DOMAIN tasks
                ELSE DOMAIN tasks \ {id}
    IN /\ active_tasks' = active_tasks
       /\ task_runs' = [other \in DOMAIN task_runs \ {id} |-> task_runs[other]]
       /\ tasks' = [other \in kept |->
                       IF other = id THEN [tasks[id] EXCEPT !.status = status]
                       ELSE tasks[other]]
       /\ last_finished' = [status |-> status, pc |-> task_runs[id].pc]
       /\ analysis' = NoAnalysis

\* the finally clause of _execute_modification_task: the coroutine is over; a task
\* that is in no collection any more is garbage
Finish(id, status) ==
    LET kept == IF id \in Range(completed_tasks) THEN DOMAIN tasks
                ELSE DOMAIN tasks \ {id}
    IN /\ active_tasks' = active_tasks \ {id}
       /\ task_runs' = [other \in DOMAIN task_runs \ {id} |-> task_runs[other]]
       /\ tasks' = [other \in kept |->
                       IF other = id THEN [tasks[id] EXCEPT !.status = status]
                       ELSE tasks[other]]
       /\ last_finished' = [status |-> status, pc |-> task_runs[id].pc]
       /\ analysis' = NoAnalysis

\* the detached coroutine starts: the safety checks, then the call of the executor
execute_modification_task_start(id, usage) ==
    /\ id \in DOMAIN task_runs
    /\ task_runs[id].pc = "created"
    /\ IF safety_checks_enabled /\ ~perform_safety_checks(id, usage)
       THEN Finish(id, "failed")
       ELSE /\ task_runs' = [task_runs EXCEPT ![id].pc = "executing",
                                               ![id].start_time = now]
            /\ last_finished' = NoneFinished
            /\ analysis' = NoAnalysis
            /\ UNCHANGED <<tasks, active_tasks>>
    /\ UNCHANGED <<safety_checks_enabled, auto_rollback_on_failure, task_queue,
                   completed_tasks, generation, cycles, rejected>>
    /\ UNCHANGED <<now, emergency_mode_active, recovery_vars, loops>>

\* the target files whose test file exists: Path(test_file).exists()
ExistingTests == {"memory/enhanced_memory.py", "chat/enhanced_completion.py",
                  "automation/error_recovery.py", "automation/mcp_discovery.py"}

\* the maps _run_tests can return: a result for each target file that has a test
\* file (keyed here by the target file), or general_test: False after an exception
TestResults(id) ==
    [tasks[id].target_files \cap ExistingTests -> BOOLEAN]
        \cup {[name \in {"general_test"} |-> FALSE]}

\* a verification that is content with one passing test
verify_modifications_any(test_results) ==
    \/ DOMAIN test_results = {}
    \/ \E name \in DOMAIN test_results : test_results[name]

\* all(test_results.values()) if test_results else True
verify_modifications(test_results) ==
    \A name \in DOMAIN test_results : test_results[name]

\* an engine that rolls back whatever the auto-rollback switch says
execute_modification_task_executed_always_rollback(id, success, test_results) ==
    LET verified == success /\ verify_modifications(test_results)
        duration == now - task_runs[id].start_time
    IN /\ id \in DOMAIN task_runs
       /\ task_runs[id].pc = "executing"
       /\ test_results \in TestResults(id)
       /\ success \/ test_results = [name \in {"general_test"} |-> FALSE]
       /\ tasks' = [tasks EXCEPT
                       ![id].actual_duration = duration,
                       ![id].test_results = IF success THEN test_results ELSE @,
                       ![id].status = IF verified THEN "completed" ELSE "failed"]
       /\ completed_tasks' =
            IF verified THEN Append(completed_tasks, id) ELSE completed_tasks
       /\ task_runs' = [task_runs EXCEPT
                           ![id].success = success,
                           ![id].pc = IF ~verified
                                      THEN "rollback" ELSE "store"]
       /\ UNCHANGED <<safety_checks_enabled, auto_rollback_on_failure, task_queue,
                      active_tasks, generation, cycles, rejected>>
       /\ last_finished' = NoneFinished
       /\ analysis' = NoAnalysis
       /\ UNCHANGED <<now, emergency_mode_active, recovery_vars, loops>>

\* the executor returns: verification and the status update, up to the next await
execute_modification_task_executed(id, success, test_results) ==
    LET verified == success /\ verify_modifications(test_results)
        duration == now - task_runs[id].start_time
    IN /\ id \in DOMAIN task_runs
       /\ task_runs[id].pc = "executing"
       /\ test_results \in TestResults(id)
       /\ success \/ test_results = [name \in {"general_test"} |-> FALSE]
       /\ tasks' = [tasks EXCEPT
                       ![id].actual_duration = duration,
                       ![id].test_results = IF success THEN test_results ELSE @,
                       ![id].status = IF verified THEN "completed" ELSE "failed"]
       /\ completed_tasks' =
            IF verified THEN Append(completed_tasks, id) ELSE completed_tasks
       /\ task_runs' = [task_runs EXCEPT
                           ![id].success = success,
                           ![id].pc = IF ~verified /\ auto_rollback_on_failure
                                      THEN "rollback" ELSE "store"]
       /\ UNCHANGED <<safety_checks_enabled, auto_rollback_on_failure, task_queue,
                      active_tasks, generation, cycles, rejected>>
       /\ last_finished' = NoneFinished
       /\ analysis' = NoAnalysis
       /\ UNCHANGED <<now, emergency_mode_active, recovery_vars, loops>>

\* _rollback_modifications after its asyncio.sleep(1): the status is set, then the
\* rollback record is stored; when that raises, the except clause logs the error
rollback_modifications(id, persisted) ==
    /\ id \in DOMAIN task_runs
    /\ task_runs[id].pc = "rollback"
    /\ tasks' = [tasks EXCEPT ![id].status = "rolled_back"]
    /\ task_runs' = [task_runs EXCEPT ![id].pc = "store"]
    /\ last_finished' = IF persisted THEN NoneFinished ELSE RollbackRaised
    /\ analysis' = NoAnalysis
    /\ UNCHANGED <<safety_checks_enabled, auto_rollback_on_failure, task_queue,
                   active_tasks, completed_tasks, generation, cycles, rejected>>
    /\ UNCHANGED <<now, emergency_mode_active, recovery_vars, loops>>

\* the task's status after memory.store_context returned or raised
StatusAfterStore(status, persisted) == IF persisted THEN status ELSE "failed"

\* memory.store_context returns or raises, then the finally clause
execute_modification_task_store(id, persisted) ==
    /\ id \in DOMAIN task_runs
    /\ task_runs[id].pc = "store"
    /\ Finish(id, StatusAfterStore(tasks[id].status, persisted))
    /\ UNCHANGED <<safety_checks_enabled, auto_rollback_on_failure, task_queue,
                   completed_tasks, generation, cycles, rejected>>
    /\ UNCHANGED <<now, emergency_mode_active, recovery_vars, loops>>

----------------------------------------------------------------------------
Tick ==
    /\ now < MaxTime
    /\ now' = now + 1
    /\ UNCHANGED <<emergency_mode_active, recovery_vars, modification_vars, loops>>

\* the probes report while the bound of the model allows it
Report(signals, max_reports) ==
    /\ TotalReports < max_reports
    /\ \E s \in signals, persisted \in BOOLEAN : process_error_event_store(s, persisted)

RecoveryNext(signals, max_reports) ==
    \/ Report(signals, max_reports)
    \/ process_error_event_admit
    \/ \E x \in BagToSet(execs) : execute_recovery_rule_start(x)
    \/ \E x \in BagToSet(execs), result \in BOOLEAN : execute_recovery_action(x, result)
    \/ \E x \in BagToSet(execs), persisted \in BOOLEAN :
            execute_recovery_rule_store(x, persisted)

\* a step of a detached _execute_recovery_rule coroutine: the event loop runs a
\* coroutine that is ready, and an awaited call returns or raises
ExecutionSteps ==
    \E x \in BagToSet(execs) :
        \/ execute_recovery_rule_start(x)
        \/ \E result \in BOOLEAN : execute_recovery_action(x, result)
        \/ \E persisted \in BOOLEAN : execute_recovery_rule_store(x, persisted)

Next ==
    \/ RecoveryNext(Signals, MaxReports)
    \/ Tick

Init ==
    /\ now = 0
    /\ emergency_mode_active = FALSE
    /\ InitRecovery
    /\ InitModification({TRUE}, {TRUE})
    /\ loops = LoopsStarted

Spec == Init /\ [][Next]_vars

\* a burst of reports within one minute
MaxBurst == 4

NextBurst == RecoveryNext(Signals, MaxBurst)

SpecBurst == Init /\ [][NextBurst]_vars

\* one error that keeps coming back
MaxRecurring == 6

RecurringSignals == {s \in Signals : s.message = MsgMemoryError}

NextRecurring == RecoveryNext(RecurringSignals, MaxRecurring)

SpecRecurring == Init /\ [][NextRecurring]_vars

\* the modification engine, under every setting of its two switches
MaxCycles == 2

InitSwitches ==
    /\ now = 0
    /\ emergency_mode_active = FALSE
    /\ InitRecovery
    /\ InitModification(BOOLEAN, BOOLEAN)
    /\ loops = LoopsStarted

\* snapshots in which only the health label and the error count breach
TwoTriggerSnapshots ==
    {status \in StatusSnapshots :
        status.pending_changes = 10 /\ status.installation_success_rate = 80}

\* a generation cycle begins while the bound of the model allows it
Generate(snapshots, max_cycles) ==
    /\ cycles < max_cycles
    /\ \E status \in snapshots, readable \in BOOLEAN :
            generate_modification_tasks(status, readable)

\* every step of the engine but the start of a generation cycle
ModificationSteps ==
    \/ \E persisted \in BOOLEAN : generate_modification_tasks_store(persisted)
    \/ execute_pending_tasks
    \/ \E id \in DOMAIN task_runs, usage \in ResourceReadings :
            execute_modification_task_start(id, usage)
    \/ \E id \in DOMAIN task_runs, success \in BOOLEAN :
         \E test_results \in TestResults(id) :
            execute_modification_task_executed(id, success, test_results)
    \/ \E id \in DOMAIN task_runs, persisted \in BOOLEAN :
            rollback_modifications(id, persisted)
    \/ \E id \in DOMAIN task_runs, persisted \in BOOLEAN :
            execute_modification_task_store(id, persisted)

NextModification ==
    \/ Generate(TwoTriggerSnapshots, MaxCycles)
    \/ ModificationSteps

SpecModification == InitSwitches /\ [][NextModification]_vars

\* the engine fed with candidates whose target files are arbitrary
MaxBatches == 1

ArbitraryFiles == {"memory/enhanced_memory.py", "automation/error_recovery.py"}

ArbitraryCandidates(cycle) ==
    {<<[create_performance_task(cycle) EXCEPT !.target_files = perf_files],
       [create_error_resolution_task(cycle) EXCEPT !.target_files = error_files]>> :
        perf_files \in SUBSET ArbitraryFiles, error_files \in SUBSET ArbitraryFiles}

GenerateArbitrary(max_cycles) ==
    /\ cycles < max_cycles
    /\ \E candidates \in ArbitraryCandidates(cycles + 1), readable \in BOOLEAN :
            /\ generate_candidates(candidates, readable)
            /\ analysis' = NoAnalysis

NextArbitrary ==
    \/ GenerateArbitrary(MaxBatches)
    \/ ModificationSteps

SpecArbitrary == InitSwitches /\ [][NextArbitrary]_vars

\* _activate_emergency_mode, run by the recovery engine at any moment
activate_emergency_mode ==
    /\ ~emergency_mode_active
    /\ emergency_mode_active' = TRUE
    /\ UNCHANGED <<now, recovery_vars, modification_vars, loops>>

NextSafety ==
    \/ NextArbitrary
    \/ activate_emergency_mode

\* safety checks on, auto-rollback on or off
InitSafetyOn ==
    /\ now = 0
    /\ emergency_mode_active = FALSE
    /\ InitRecovery
    /\ InitModification({TRUE}, BOOLEAN)
    /\ loops = LoopsStarted

SpecSafety == InitSafetyOn /\ [][NextSafety]_vars

\* the engine as constructed (both switches on) under every status snapshot: up to
\* four tasks queue up in a cycle; every admitted task ends in its safety
\* pre-check, where it conflicts with itself, so its coroutine has no later step
MaxFullCycles == 2

NextScheduling ==
    \/ Generate(StatusSnapshots, MaxFullCycles)
    \/ \E persisted \in BOOLEAN : generate_modification_tasks_store(persisted)
    \/ execute_pending_tasks
    \/ \E id \in DOMAIN task_runs, usage \in ResourceReadings :
            execute_modification_task_start(id, usage)

SpecScheduling == Init /\ [][NextScheduling]_vars

----------------------------------------------------------------------------
(* Properties of the recovery engine *)

ReportedAs(sig) == {s \in Signals : reported[s].n > 0 /\ error_signature(s) = sig}

\* C1, as the code keys the table: the event table holds exactly one ErrorEvent per
\* signature (component, error_type, hash(message) % 10000). Every report of a
\* stored signature adds one to recurrence_count and refreshes timestamp instead
\* of adding an event, so recurrence_count is the number of reports made with the
\* signature (two identical reports alone leave one event with count 2) and
\* timestamp is the time of the latest of them.
C1_OneEventPerSignature ==
    /\ \A s \in Signals : reported[s].n > 0 => error_signature(s) \in Signatures
    /\ \A sig \in Signatures :
        LET same == ReportedAs(sig) IN
        /\ same # {}
        /\ error_events[sig].recurrence_count = SumOver(same, [s \in same |-> reported[s].n])
        /\ \E s \in same : error_events[sig].timestamp = reported[s].at
        /\ \A s \in same : reported[s].at <= error_events[sig].timestamp

\* an error reported at minute 0 and again at minute 1 is one event of count 2
C1_Witness ==
    \E s \in Signals :
        /\ reported[s] = [n |-> 2, at |-> 1]
        /\ ReportedAs(error_signature(s)) = {s}
        /\ error_events[error_signature(s)].id = error_id(s, 0)
        /\ error_events[error_signature(s)].recurrence_count = 2
        /\ error_events[error_signature(s)].timestamp = 1

\* C1 as stated: every reported (component, error_type, message) has its own
\* stored event, whose recurrence_count is the number of reports of that triple
C1_OneEventPerMessage ==
    \A s \in Signals :
        reported[s].n > 0 =>
            \E sig \in Signatures :
                /\ error_events[sig].component = s.component
                /\ error_events[sig].error_type = s.error_type
                /\ error_events[sig].error_message = s.message
                /\ error_events[sig].recurrence_count = reported[s].n

\* C2: once a stored event's recurrence_count exceeds 5, the stored event's
\* severity is one level above the severity its message classifies to
\* (medium becomes high, anything else becomes critical).
C2_StoredSeverityEscalates ==
    \A sig \in Signatures :
        error_events[sig].recurrence_count > 5 =>
            error_events[sig].severity =
                EscalatedSeverity(classify_error_severity(error_events[sig].error_message),
                                  error_events[sig].recurrence_count)

\* C3: a rule selected for execution at time T is not selected again before
\* T + cooldown_minutes.
C3_CooldownBetweenSelections ==
    [][\A x \in BagToSet(execs') :
          (x.pc = "created" /\ CopiesIn(x, execs') > CopiesIn(x, execs)) =>
              \/ last_selected[x.rule] = NoTime
              \/ now - last_selected[x.rule] >= recovery_rules[x.rule].cooldown_minutes]_vars

\* C4: the number of rule executions in flight never exceeds
\* max_concurrent_recoveries.
C4_InFlightWithinCap == InFlight <= max_concurrent_recoveries

\* C5: at most one rule execution is in flight for any one event.
C5_OneExecutionPerEvent ==
    \A sig \in Signatures :
        BagCardinality([x \in {y \in BagToSet(execs) : y.ev = sig} |-> CopiesIn(x, execs)]) <= 1

\* C6: every finished rule execution has added exactly one to exactly one of the
\* rule's success_count and failure_count: for a rule with no execution in flight
\* the two counters sum to the number of its finished executions.
C6_CountersSumToFinished ==
    \A r \in RuleIds :
        (\A x \in BagToSet(execs) : x.rule # r) =>
            recovery_rules[r].success_count + recovery_rules[r].failure_count = finished[r]

\* C7: while emergency_mode_active is set, a report still stores or merges its
\* event (the table gains the report) and starts no recovery: no execution is
\* created and active_recoveries gains no entry.
C7_EmergencyStoresWithoutRecovery ==
    [][emergency_mode_active =>
        /\ \A s \in Signals :
              reported'[s].n = reported[s].n + 1 =>
                  /\ error_signature(s) \in DOMAIN error_events'
                  /\ error_events'[error_signature(s)].recurrence_count =
                        (IF error_signature(s) \in Signatures
                         THEN error_events[error_signature(s)].recurrence_count ELSE 0) + 1
                  /\ execs' = execs
                  /\ active_recoveries' = active_recoveries
        /\ (reporting.stage = "stored" /\ reporting'.stage = "idle") =>
              /\ execs' = execs
              /\ active_recoveries' = active_recoveries
              /\ error_events' = error_events]_vars

\* a report is stored in emergency mode for which a rule is ready and a slot free
C7_Witness ==
    /\ emergency_mode_active
    /\ reporting.stage = "stored"
    /\ Cardinality(active_recoveries) < max_concurrent_recoveries
    /\ RuleToStart(recovery_rules, error_events[reporting.sig], now) # 0

----------------------------------------------------------------------------
(* Properties of the modification engine *)

\* the status of a task after a step; a task that left every collection finished
\* with the status the step recorded
NextStatus(id) ==
    IF id \in DOMAIN tasks' THEN tasks'[id].status ELSE last_finished'.status

TaskTransitions ==
    {<<"pending", "in_progress">>, <<"in_progress", "completed">>,
     <<"in_progress", "failed">>, <<"failed", "rolled_back">>}

\* C8: a task's status only moves along pending -> in_progress ->
\* {completed | failed -> rolled_back}; completed and rolled_back never change.
C8_StatusStateMachine ==
    [][\A id \in DOMAIN tasks :
          \/ NextStatus(id) = tasks[id].status
          \/ <<tasks[id].status, NextStatus(id)>> \in TaskTransitions]_vars

HasFailedTest(task) == \E name \in DOMAIN task.test_results : ~task.test_results[name]

Unfinished(id) == tasks[id].status \in {"pending", "in_progress"}

\* C10: no two distinct tasks of the same (task_type, scope) are pending or
\* in progress at once, and a candidate _validate_task rejected is in no
\* collection.
C10_NoDuplicateTypeAndScope ==
    /\ \A a, b \in DOMAIN tasks :
          (/\ a # b
           /\ tasks[a].task_type = tasks[b].task_type
           /\ tasks[a].scope = tasks[b].scope
           /\ Unfinished(a)) => ~Unfinished(b)
    /\ rejected \cap (DOMAIN tasks \cup Range(task_queue) \cup active_tasks) = {}

\* a candidate was rejected for a queued task of its type and scope
C10_Witness ==
    \E r \in rejected, id \in Range(task_queue) :
        /\ r[1] = id[1]
        /\ r # id
        /\ Unfinished(id)
        /\ \A other \in active_tasks : other[1] # r[1]

\* a system that has been running: the memory rule has a history of outcomes
MaxHistory == 10
MaxProbes == 1
LongAgo == -60

RulesWithHistory(r, successes, failures, used) ==
    [create_recovery_rules EXCEPT ![r].success_count = successes,
                                  ![r].failure_count = failures,
                                  ![r].last_used = used]

MemoryRule == CHOOSE r \in RuleIds : create_recovery_rules[r].name = "memory_cache_clear"

InitHistory ==
    /\ now = 0
    /\ emergency_mode_active = FALSE
    /\ error_events = <<>>
    /\ active_recoveries = {}
    /\ reporting = Idle
    /\ execs = EmptyBag
    /\ last_selected = [r \in RuleIds |-> NoTime]
    /\ reported = [s \in Signals |-> [n |-> 0, at |-> NoTime]]
    /\ \E successes \in 0..MaxHistory, failures \in 0..MaxHistory :
         \E used \in (IF successes + failures = 0 THEN {NoTime} ELSE {LongAgo, 0}) :
            /\ recovery_rules = RulesWithHistory(MemoryRule, successes, failures, used)
            /\ finished = [r \in RuleIds |->
                              IF r = MemoryRule THEN successes + failures ELSE 0]
    /\ InitModification({TRUE}, {TRUE})
    /\ loops = LoopsStarted

NextHistory == RecoveryNext(RecurringSignals, MaxProbes)

SpecHistory == InitHistory /\ [][NextHistory]_vars

\* the memory rule with a history around its floor of 0.7, the error recurring
\* while the clock moves on by the rule's cooldown
MaxFloorReports == 3
MaxClock == 20

\* time passes: the cooldown of the memory rule
Wait ==
    /\ now + create_recovery_rules[MemoryRule].cooldown_minutes <= MaxClock
    /\ now' = now + create_recovery_rules[MemoryRule].cooldown_minutes
    /\ UNCHANGED <<emergency_mode_active, recovery_vars, modification_vars, loops>>

InitFloor ==
    /\ now = 0
    /\ emergency_mode_active = FALSE
    /\ error_events = <<>>
    /\ active_recoveries = {}
    /\ reporting = Idle
    /\ execs = EmptyBag
    /\ last_selected = [r \in RuleIds |-> NoTime]
    /\ reported = [s \in Signals |-> [n |-> 0, at |-> NoTime]]
    /\ \E successes \in (MaxHistory - 2)..MaxHistory, failures \in 3..4 :
            /\ recovery_rules =
                    RulesWithHistory(MemoryRule, successes, failures, LongAgo)
            /\ finished = [r \in RuleIds |->
                              IF r = MemoryRule THEN successes + failures ELSE 0]
    /\ InitModification({TRUE}, {TRUE})
    /\ loops = LoopsStarted

NextFloor ==
    \/ RecoveryNext(RecurringSignals, MaxFloorReports)
    \/ Wait

SpecFloor == InitFloor /\ [][NextFloor]_vars /\ WF_vars(ExecutionSteps)

\* messages of one or two words over the terms of the severity classification
MaxClassified == 1

Vocabulary ==
    {"CRITICAL", "fatal", "crash", "system", "failure", "Timeout", "connection",
     "authentication", "permission", "error", "failed", "exception", "Memory"}

ClassifiedMessages ==
    {<<a>> : a \in Vocabulary} \cup {<<a, b>> : a, b \in Vocabulary}

ClassifiedSignals ==
    {[component |-> "api", error_type |-> "application_error", message |-> m,
      stack_trace |-> "", metadata |-> {}] :
        m \in ClassifiedMessages}

InitClassified ==
    /\ now = 0
    /\ emergency_mode_active = FALSE
    /\ error_events = <<>>
    /\ recovery_rules = create_recovery_rules
    /\ active_recoveries = {}
    /\ reporting = Idle
    /\ execs = EmptyBag
    /\ last_selected = [r \in RuleIds |-> NoTime]
    /\ finished = [r \in RuleIds |-> 0]
    /\ reported = [s \in ClassifiedSignals |-> [n |-> 0, at |-> NoTime]]
    /\ InitModification({TRUE}, {TRUE})
    /\ loops = LoopsStarted

NextClassified == RecoveryNext(ClassifiedSignals, MaxClassified)

SpecClassified == InitClassified /\ [][NextClassified]_vars

\* messages over the keywords of the category classification: every keyword
\* alone, and every pair of words drawn from one keyword of each group and a
\* word of no group
CategorizedMessages ==
    LET keywords == {"provider", "completion", "Memory", "memory", "cache", "mcp",
                     "server", "database", "sql", "Timeout", "timeout", "network",
                     "config", "settings", "dependency", "import", "performance",
                     "slow", "authentication", "token", "disk", "resource", "error"}
        paired == {"provider", "Memory", "mcp", "database", "Timeout", "config",
                   "import", "slow", "token", "disk", "error"}
    IN {<<a>> : a \in keywords} \cup {<<a, b>> : a, b \in paired}

CategorizedSignals ==
    {[component |-> "api", error_type |-> "application_error", message |-> m,
      stack_trace |-> "", metadata |-> {}] :
        m \in CategorizedMessages}

InitCategorized ==
    /\ now = 0
    /\ emergency_mode_active = FALSE
    /\ error_events = <<>>
    /\ recovery_rules = create_recovery_rules
    /\ active_recoveries = {}
    /\ reporting = Idle
    /\ execs = EmptyBag
    /\ last_selected = [r \in RuleIds |-> NoTime]
    /\ finished = [r \in RuleIds |-> 0]
    /\ reported = [s \in CategorizedSignals |-> [n |-> 0, at |-> NoTime]]
    /\ InitModification({TRUE}, {TRUE})
    /\ loops = LoopsStarted

NextCategorized == RecoveryNext(CategorizedSignals, MaxClassified)

SpecCategorized == InitCategorized /\ [][NextCategorized]_vars

----------------------------------------------------------------------------
(* The status reports of the two engines *)

Raised == [raised |-> TRUE]

ErrorSeverityValues == {"low", "medium", "high", "critical"}

ModificationTypeValues ==
    {"performance_enhancement", "bug_fix", "configuration_tuning",
     "integration_addition"}

\* the first n elements of a set of records in descending order of key, as
\* sorted(..., reverse=True)[:n] gives them; equal keys come in an order the
\* model does not track
RECURSIVE Latest(_, _, _)
Latest(S, key, n) ==
    IF S = {} \/ n = 0 THEN <<>>
    ELSE LET top == CHOOSE e \in S : \A f \in S : key[f] <= key[e]
         IN <<top>> \o Latest(S \ {top}, key, n - 1)

\* get_error_recovery_status: the payload, or Raised when an expression of the
\* function fails (.value of a severity that is no ErrorSeverity, isoformat or
\* comparison of a missing timestamp)
get_error_recovery_status ==
    IF \E sig \in Signatures :
           \/ error_events[sig].severity \notin ErrorSeverityValues
           \/ error_events[sig].timestamp = NoTime
    THEN Raised
    ELSE [raised |-> FALSE,
          emergency_mode_active |-> emergency_mode_active,
          total_errors |-> Cardinality(Signatures),
          resolved_errors |->
              Cardinality({sig \in Signatures : error_events[sig].resolved}),
          active_recoveries |-> Cardinality(active_recoveries),
          recovery_rules |->
              Cardinality({r \in RuleIds : recovery_rules[r].enabled}),
          recent_errors |->
              LET latest == Latest(Signatures,
                                    [sig \in Signatures |-> error_events[sig].timestamp],
                                    10)
              IN [i \in 1..Len(latest) |->
                     [id |-> error_events[latest[i]].id,
                      type |-> error_events[latest[i]].error_type,
                      severity |-> error_events[latest[i]].severity,
                      resolved |-> error_events[latest[i]].resolved,
                      timestamp |-> error_events[latest[i]].timestamp]]]

\* get_self_modification_status: the payload, or Raised when an expression of
\* the function fails (.value of a type that is no ModificationType, isoformat
\* or comparison of a missing created_at). The recent tasks are taken from the
\* list completed_tasks + list(active_tasks.values()), in which a task that is
\* in both collections stands twice
get_self_modification_status ==
    LET values == Latest(active_tasks, [id \in active_tasks |-> 0],
                         Cardinality(active_tasks))
        listed == completed_tasks \o values
        places == 1..Len(listed)
    IN
    IF \E i \in places :
           \/ tasks[listed[i]].task_type \notin ModificationTypeValues
           \/ tasks[listed[i]].created_at = NoTime
    THEN Raised
    ELSE [raised |-> FALSE,
          active_tasks |-> Cardinality(active_tasks),
          queued_tasks |-> Len(task_queue),
          completed_tasks |-> Len(completed_tasks),
          safety_checks_enabled |-> safety_checks_enabled,
          recent_tasks |->
              LET latest == Latest(places,
                                   [i \in places |-> tasks[listed[i]].created_at],
                                   10)
              IN [i \in 1..Len(latest) |->
                     [id |-> listed[latest[i]],
                      type |-> tasks[listed[latest[i]]].task_type,
                      status |-> tasks[listed[latest[i]]].status,
                      created_at |-> tasks[listed[latest[i]]].created_at]]]

\* both engines at work: one recurring error, one generation cycle
MaxEngineReports == 1
MaxEngineCycles == 1

\* snapshots in which only the error count breaches
OneTriggerSnapshots ==
    {status \in TwoTriggerSnapshots : status.system_health = "good"}

NextEngines ==
    \/ RecoveryNext(RecurringSignals, MaxEngineReports)
    \/ Generate(OneTriggerSnapshots, MaxEngineCycles)
    \/ ModificationSteps

SpecEngines == InitSwitches /\ [][NextEngines]_vars

\* the background loops alone; a sleep that is due returns
NextLoops ==
    \/ \E l \in Loops, raised \in BOOLEAN : loop_body(l, raised)
    \/ \E l \in Loops : loop_wakes(l)

SpecLoops ==
    /\ Init
    /\ [][NextLoops]_vars
    /\ \A l \in Loops : WF_vars(loop_wakes(l))

\* a registry in which four rules match the memory error: they differ in their
\* success-rate floor, in the length of their action list and in whether they
\* were used a moment ago
RankedRules == 1..4

RankedRegistry(floors, lengths, used) ==
    [r \in RuleIds |->
        IF r \in RankedRules
        THEN [create_recovery_rules[MemoryRule] EXCEPT
                 !.success_rate_threshold = floors[r],
                 !.actions = SubSeq(<<"clear_cache", "scale_resources">>, 1, lengths[r]),
                 !.last_used = used[r]]
        ELSE create_recovery_rules[r]]

InitRanked ==
    /\ now = 0
    /\ emergency_mode_active = FALSE
    /\ error_events = <<>>
    /\ active_recoveries = {}
    /\ reporting = Idle
    /\ execs = EmptyBag
    /\ last_selected = [r \in RuleIds |-> NoTime]
    /\ finished = [r \in RuleIds |-> 0]
    /\ reported = [s \in Signals |-> [n |-> 0, at |-> NoTime]]
    /\ \E floors \in [RankedRules -> {5, 7}], lengths \in [RankedRules -> {1, 2}],
          used \in [RankedRules -> {NoTime, 0}] :
            recovery_rules = RankedRegistry(floors, lengths, used)
    /\ InitModification({TRUE}, {TRUE})
    /\ loops = LoopsStarted

MaxRanked == 1

NextRanked == RecoveryNext(RecurringSignals, MaxRanked)

SpecRanked == InitRanked /\ [][NextRanked]_vars

\* a slow component reported again and again: the event of the rule whose
\* action list ends with clear_cache
MaxDegraded == 3

MsgSlowError == <<"slow", "error">>

DegradedSignals ==
    {[component |-> "api", error_type |-> "application_error", message |-> MsgSlowError,
      stack_trace |-> "", metadata |-> {}]}

InitDegraded ==
    /\ now = 0
    /\ emergency_mode_active = FALSE
    /\ error_events = <<>>
    /\ recovery_rules = create_recovery_rules
    /\ active_recoveries = {}
    /\ reporting = Idle
    /\ execs = EmptyBag
    /\ last_selected = [r \in RuleIds |-> NoTime]
    /\ finished = [r \in RuleIds |-> 0]
    /\ reported = [s \in DegradedSignals |-> [n |-> 0, at |-> NoTime]]
    /\ InitModification({TRUE}, {TRUE})
    /\ loops = LoopsStarted

NextDegraded == RecoveryNext(DegradedSignals, MaxDegraded)

SpecDegraded == InitDegraded /\ [][NextDegraded]_vars

\* a critical provider failure and a memory error reported while the
\* modification engine works
MaxAlarms == 2

AlarmSignals == {s \in Signals : s.message \in {MsgCriticalProvider, MsgMemoryError}}

NextAlarm ==
    \/ RecoveryNext(AlarmSignals, MaxAlarms)
    \/ Generate(OneTriggerSnapshots, MaxEngineCycles)
    \/ ModificationSteps

SpecAlarm == InitSwitches /\ [][NextAlarm]_vars

\* the recovery engine whose actions and persistence calls all return or raise,
\* under reports of three errors that each have a rule: as many as the cap
MaxFinishing == 3

FinishingSignals ==
    RecurringSignals \cup DegradedSignals
        \cup {[component |-> "memory", error_type |-> "component_check_failure",
                message |-> MsgMemoryError, stack_trace |-> "", metadata |-> {}]}

InitFinishing ==
    /\ now = 0
    /\ emergency_mode_active = FALSE
    /\ error_events = <<>>
    /\ recovery_rules = create_recovery_rules
    /\ active_recoveries = {}
    /\ reporting = Idle
    /\ execs = EmptyBag
    /\ last_selected = [r \in RuleIds |-> NoTime]
    /\ finished = [r \in RuleIds |-> 0]
    /\ reported = [s \in FinishingSignals |-> [n |-> 0, at |-> NoTime]]
    /\ InitModification({TRUE}, {TRUE})
    /\ loops = LoopsStarted

NextFinishing == RecoveryNext(FinishingSignals, MaxFinishing)

SpecFinishing == InitFinishing /\ [][NextFinishing]_vars /\ WF_vars(ExecutionSteps)

\* the modification engine while the clock runs
NextClock ==
    \/ Generate(OneTriggerSnapshots, MaxEngineCycles)
    \/ ModificationSteps
    \/ Tick

SpecClock == InitSwitches /\ [][NextClock]_vars

\* the modification engine whose external calls all return or raise: a task
\* coroutine that can take a step eventually takes one; the tasks are those of
\* the health and error triggers
TaskIds == {<<prefix, cycle>> : prefix \in {"perf", "error"},
                               cycle \in 1..MaxEngineCycles}

\* the executor of a task returns
ExecutorReturns(id) ==
    /\ id \in DOMAIN task_runs
    /\ \E success \in BOOLEAN : \E test_results \in TestResults(id) :
            execute_modification_task_executed(id, success, test_results)

\* any other step of the coroutine of a task
TaskStep(id) ==
    \/ \E usage \in ResourceReadings : execute_modification_task_start(id, usage)
    \/ \E persisted \in BOOLEAN : rollback_modifications(id, persisted)
    \/ \E persisted \in BOOLEAN : execute_modification_task_store(id, persisted)

NextTermination ==
    \/ Generate(TwoTriggerSnapshots, MaxEngineCycles)
    \/ ModificationSteps

SpecTermination ==
    /\ InitSwitches
    /\ [][NextTermination]_vars
    /\ \A id \in TaskIds : WF_vars(TaskStep(id)) /\ WF_vars(ExecutorReturns(id))

\* the same engine with executors that need not return
SpecHangingExecutor ==
    /\ InitSwitches
    /\ [][NextTermination]_vars
    /\ \A id \in TaskIds : WF_vars(TaskStep(id))

C12_ActiveWithinCap ==
    /\ [](Cardinality(active_tasks) <= max_concurrent_modifications)
    /\ [][active_tasks' \ active_tasks # {} =>
            /\ Cardinality(active_tasks) < max_concurrent_modifications
            /\ active_tasks \subseteq active_tasks'
            /\ Cardinality(active_tasks' \ active_tasks) <=
                  max_concurrent_modifications - Cardinality(active_tasks)]_vars

\* the active map is full while tasks wait in the queue
C12_Witness ==
    /\ Cardinality(active_tasks) = max_concurrent_modifications
    /\ Len(task_queue) >= 2

SharesFile(a, b) == tasks[a].target_files \cap tasks[b].target_files # {}

Pressure(usage) == usage.cpu > 90 \/ usage.memory > 95

\* C14: with safety checks enabled, the pre-check of an admitted task fails for
\* every resource reading above the threshold, in emergency mode, and when
\* another active task shares a target file; a task whose pre-check fails is
\* marked failed, leaves the active map and is never passed to the executor, and
\* a task is passed to the executor only on a reading that passes the check.
C14_PreCheckBlocks ==
    /\ [](safety_checks_enabled =>
            \A id \in DOMAIN task_runs, usage \in ResourceReadings :
                (/\ task_runs[id].pc = "created"
                 /\ \/ Pressure(usage)
                    \/ emergency_mode_active
                    \/ \E other \in active_tasks \ {id} : SharesFile(id, other))
                => ~perform_safety_checks(id, usage))
    /\ [][\A id \in DOMAIN task_runs :
            \* the step in which the coroutine of task id runs its pre-check
            (/\ safety_checks_enabled
             /\ task_runs[id].pc = "created"
             /\ id \in DOMAIN task_runs' => task_runs'[id].pc # "created") =>
                LET passed == id \in DOMAIN task_runs' /\ task_runs'[id].pc = "executing"
                    blocked == \/ emergency_mode_active
                               \/ \E other \in active_tasks \ {id} : SharesFile(id, other)
                IN /\ blocked => ~passed
                   /\ passed => \E usage \in ResourceReadings :
                                    ~Pressure(usage) /\ perform_safety_checks(id, usage)
                   /\ ~passed => /\ NextStatus(id) = "failed"
                                 /\ id \notin active_tasks'
                                 /\ id \notin DOMAIN task_runs']_vars

\* in emergency mode the pre-check has just failed a task that no other active
\* task was in the way of
C14_Witness ==
    /\ safety_checks_enabled
    /\ emergency_mode_active
    /\ last_finished = [status |-> "failed", pc |-> "created"]
    /\ active_tasks = {}

Terminal == {"completed", "failed", "rolled_back"}

\* C15: a task that ends with a terminal status has left the active set and is
\* in the history, whichever path ended it.
C15_FinishedTasksInHistory ==
    [][\A id \in active_tasks :
          (id \notin active_tasks' /\ NextStatus(id) \in Terminal) =>
              id \in Range(completed_tasks')]_vars

\* C16: when the rollback operation raises, the task's status remains failed.
C16_FailedRollbackStaysFailed ==
    [][\A id \in DOMAIN task_runs :
          (task_runs[id].pc = "rollback" /\ last_finished' = RollbackRaised) =>
              tasks'[id].status = "failed"]_vars

\* the actions a step appended to the event's recovery_actions_taken
Appended(sig) ==
    SubSeq(error_events'[sig].recovery_actions_taken,
           Len(error_events[sig].recovery_actions_taken) + 1,
           Len(error_events'[sig].recovery_actions_taken))

\* C17: a rule execution runs its rule's actions in list order: a step that
\* takes the execution from position `from` on records exactly the actions
\* from..y.i - 1 of the list while they succeed; the first action that fails
\* records nothing, leaves the remaining actions unexecuted, goes straight to
\* the outcome record (the execution is not ended by an exception) and counts
\* one failure for the rule; storing the outcome executes no action.
C17_ActionsInOrderAbortOnFailure ==
    [][/\ \A x \in BagToSet(execs), y \in BagToSet(execs') :
            (/\ x.pc \in {"created", "await"}
             /\ y.pc \in {"await", "store"}
             /\ x.ev = y.ev /\ x.rule = y.rule /\ x # y
             /\ execs' = Replace(execs, x, y)) =>
                LET actions == recovery_rules[x.rule].actions
                    from == IF x.pc = "created" THEN 1 ELSE x.i
                IN IF y.success
                   THEN /\ Appended(x.ev) = SubSeq(actions, from, y.i - 1)
                        /\ y.pc = "store" <=> y.i = Len(actions) + 1
                        /\ recovery_rules'[x.rule].failure_count =
                              recovery_rules[x.rule].failure_count
                   ELSE /\ x.pc = "await"
                        /\ Appended(x.ev) = <<>>
                        /\ y.pc = "store"
                        /\ y.i = x.i
                        /\ emergency_mode_active' = emergency_mode_active
                        /\ recovery_rules'[x.rule].failure_count =
                              recovery_rules[x.rule].failure_count + 1
                        /\ recovery_rules'[x.rule].success_count =
                              recovery_rules[x.rule].success_count
       /\ \A x \in BagToSet(execs) :
            (x.pc = "store" /\ CopiesIn(x, execs') < CopiesIn(x, execs)) =>
                /\ error_events' = error_events
                /\ execs' = execs (-) SetToBag({x})]_vars

\* a first action failed: the rule's second action was not executed, and the
\* failure is counted
C17_Witness ==
    \E x \in BagToSet(execs) :
        /\ x.pc = "store"
        /\ ~x.success
        /\ x.i < Len(recovery_rules[x.rule].actions)
        /\ error_events[x.ev].recovery_actions_taken = <<>>
        /\ recovery_rules[x.rule].failure_count = 1
        /\ recovery_rules[x.rule].success_count = 0

\* success_count / (success_count + failure_count) < success_rate_threshold
BelowFloor(rule) ==
    rule.success_count * 10 <
        rule.success_rate_threshold * (rule.success_count + rule.failure_count)

Attempts(rule) == rule.success_count + rule.failure_count

\* the admission step of the event being processed starts an execution of rule r
Admits(r) ==
    /\ reporting.stage = "stored"
    /\ execs' = execs (+) SetToBag({NewExec(reporting.sig, r)})

\* C18: an admission never starts a rule that has at least 10 recorded attempts
\* and a success rate below its floor; and a rule with fewer than 10 recorded
\* attempts is not held back by its rate: when it is the best-ranked match of
\* the event, its cooldown has passed and recoveries are being admitted, the
\* admission starts it, whatever its rate.
C18_SuccessRateFloor ==
    [][/\ \A r \in RuleIds :
            (Attempts(recovery_rules[r]) >= 10 /\ BelowFloor(recovery_rules[r]))
                => ~Admits(r)
       /\ (reporting.stage = "stored" /\ reporting'.stage = "idle") =>
            LET event == error_events[reporting.sig]
                sorted == SortRules(recovery_rules,
                                    find_recovery_rules(recovery_rules, event))
            IN (/\ sorted # <<>>
                /\ MayAttemptRecovery
                /\ Attempts(recovery_rules[sorted[1]]) < 10
                /\ \/ recovery_rules[sorted[1]].last_used = NoTime
                   \/ now - recovery_rules[sorted[1]].last_used >=
                         recovery_rules[sorted[1]].cooldown_minutes)
                    => Admits(sorted[1])]_vars

\* the spec's example and its counterpart: with 2 successes and 8 failures the
\* event of the memory rule was stored and processed without an execution
C18_Witness ==
    /\ recovery_rules[MemoryRule].success_count = 2
    /\ recovery_rules[MemoryRule].failure_count = 8
    /\ recovery_rules[MemoryRule].last_used = LongAgo
    /\ reporting = Idle
    /\ execs = EmptyBag
    /\ active_recoveries = {}
    /\ \E sig \in Signatures : RuleMatches(recovery_rules[MemoryRule], error_events[sig])

\* low < medium < high < critical
AtLeast(sev, minimum) ==
    LET severity_order == <<"low", "medium", "high", "critical">>
    IN \E i, j \in 1..Len(severity_order) :
           severity_order[i] = minimum /\ severity_order[j] = sev /\ i <= j

\* the four tests of a rule against an event
Eligible(rule, event) ==
    /\ rule.enabled
    /\ rule.category = event.category
    /\ AtLeast(event.severity, rule.severity)
    /\ PatternMatches(rule.error_pattern, Lower(event.error_message))

HasTerm(message, terms) == \E i \in 1..Len(message) : \E t \in terms :
    t \in KeywordsIn(LowerWord(message[i]))

\* the severity by the priority order critical, high, medium, low
SeverityByPriority(critical, message) ==
    IF critical THEN "critical"
    ELSE IF HasTerm(message, {"timeout", "connection", "authentication",
                              "permission"}) THEN "high"
    ELSE IF HasTerm(message, {"error", "failed", "exception"}) THEN "medium"
    ELSE "low"

\* the statement with the three critical terms "critical", "fatal" and "crash"
\* only: every stored event has the severity the priority order gives its message
C20_SeverityByThreeCriticalTerms ==
    \A sig \in Signatures :
        LET m == error_events[sig].error_message IN
        error_events[sig].severity =
            SeverityByPriority(HasTerm(m, {"critical", "fatal", "crash"}), m)

\* C20: the severity of a stored event is a function of its message alone,
\* taken in priority order: critical if the message contains "critical",
\* "fatal", "crash" or "system failure" in any letter case; otherwise high if
\* it contains "timeout", "connection", "authentication" or "permission";
\* otherwise medium if it contains "error", "failed" or "exception"; otherwise
\* low.
C20_SeverityByPriority ==
    \A sig \in Signatures :
        LET m == error_events[sig].error_message
            system_failure ==
                \E i \in 1..(Len(m) - 1) :
                    LowerWord(m[i]) = "system" /\ LowerWord(m[i + 1]) = "failure"
        IN error_events[sig].severity =
               SeverityByPriority(HasTerm(m, {"critical", "fatal", "crash"})
                                     \/ system_failure, m)

\* "CRITICAL error" in capitals is stored critical although it also holds a
\* medium term
C20_Witness ==
    \E sig \in Signatures :
        /\ error_events[sig].error_message = <<"CRITICAL", "error">>
        /\ error_events[sig].severity = "critical"

Triggers(status) ==
    {[breached |-> status.system_health = "poor",
      task_type |-> "performance_enhancement", scope |-> "subsystem", priority |-> 2],
     [breached |-> status.unresolved_errors > 5,
      task_type |-> "bug_fix", scope |-> "module", priority |-> 1],
     [breached |-> status.pending_changes > 10,
      task_type |-> "configuration_tuning", scope |-> "system_wide", priority |-> 3],
     [breached |-> status.installation_success_rate < 80,
      task_type |-> "integration_addition", scope |-> "subsystem", priority |-> 4]}

\* the tasks a step appended to the queue
Enqueued == Range(task_queue') \ Range(task_queue)

\* C22: a generation cycle that read its status snapshot holds in new_tasks
\* exactly one candidate for every breached threshold, of the type, scope and
\* priority of that trigger, and nothing else; a step enqueues at most one
\* candidate and only one that admission validation accepts in the state it is
\* validated in, and a refused candidate is neither queued nor kept for a later
\* try in the cycle.
C22_OneCandidatePerBreach ==
    /\ [](analysis.read =>
            /\ \A t \in Triggers(analysis.status) :
                 LET made == {i \in 1..Len(analysis.new_tasks) :
                                 analysis.new_tasks[i].task_type = t.task_type}
                 IN /\ Cardinality(made) = (IF t.breached THEN 1 ELSE 0)
                    /\ \A i \in made :
                         /\ analysis.new_tasks[i].scope = t.scope
                         /\ analysis.new_tasks[i].priority = t.priority
                         /\ analysis.new_tasks[i].status = "pending"
            /\ Len(analysis.new_tasks) =
                 Cardinality({t \in Triggers(analysis.status) : t.breached}))
    /\ [](/\ rejected \cap Range(task_queue) = {}
          /\ rejected \cap DOMAIN tasks = {}
          /\ generation.stage = "storing" =>
                \A i \in 1..Len(generation.rest) : generation.rest[i].id \notin rejected)
    /\ [][/\ Cardinality(Enqueued) <= 1
          /\ \A id \in Enqueued : validate_task(tasks'[id])
          /\ \A id \in rejected' \ rejected : id \notin Range(task_queue')]_vars

\* a cycle with all four thresholds breached made four candidates; the first
\* was refused and dropped, a later one is in the queue behind an older task
C22_Witness ==
    /\ analysis.read
    /\ \A t \in Triggers(analysis.status) : t.breached
    /\ Len(analysis.new_tasks) = 4
    /\ rejected = {analysis.new_tasks[1].id}
    /\ Len(task_queue) >= 2
    /\ task_queue[Len(task_queue)] = analysis.new_tasks[2].id

\* C23: no loop ever ends: an iteration whose body raises takes the loop into
\* the sleep of its except clause, for the backoff interval of the loop, and
\* from that sleep the loop always comes to a further iteration.
C23_LoopsSurviveFailures ==
    /\ [](\A l \in Loops :
            /\ loops[l].pc \in {"body", "sleep", "backoff"}
            /\ loops[l].pc = "backoff" =>
                  loops[l].after = "raise" /\ loops[l].sleep = Backoff(l))
    /\ [][\A l \in Loops :
            (loops[l].pc = "body" /\ loops'[l] # loops[l]) =>
                loops'[l].pc \in {"sleep", "backoff"}]_vars
    /\ \A l \in Loops :
            (loops[l].pc = "backoff") ~> (loops[l].pc = "body" /\ loops[l].after = "raise")

\* the detection loop and the monitoring loop are in an iteration that follows
\* a failed one, while the generation loop sleeps after a body that returned
C23_Witness ==
    /\ loops["_error_detection_loop"] = LoopAt("body", "raise", 0)
    /\ loops["_system_monitoring_loop"] = LoopAt("body", "raise", 0)
    /\ loops["_task_generation_loop"].pc = "sleep"
    /\ loops["_task_execution_loop"].after = "return"

\* the rule executions started so far for the one event of a recurring error
Started == SumOver(RuleIds, finished) + InFlight

\* C24: a rule execution is started only by the processing of a report, for the
\* event of that report and one at a time; the end of an execution, failed or
\* not, starts nothing. For the one event of a recurring error the executions
\* started never outnumber its reports.
C24_NoRetryWithoutReport ==
    /\ [](Started <= TotalReports)
    /\ [][/\ \A x \in BagToSet(execs') :
                (x.pc = "created" /\ CopiesIn(x, execs') > CopiesIn(x, execs)) =>
                    /\ reporting.stage = "stored"
                    /\ reporting.sig = x.ev
                    /\ reporting'.stage = "idle"
                    /\ execs' = execs (+) SetToBag({x})
          /\ Started' > Started => reporting.stage = "stored" /\ Started' = Started + 1
          /\ \A x \in BagToSet(execs) :
                (x.pc = "store" /\ CopiesIn(x, execs') < CopiesIn(x, execs)) =>
                    execs' = execs (-) SetToBag({x})]_vars

\* the only report of the event got a rule execution that failed and has ended:
\* the event stays unresolved with nothing in flight for it
C24_Witness ==
    \E sig \in Signatures :
        /\ error_events[sig].recurrence_count = 1
        /\ ~error_events[sig].resolved
        /\ reporting = Idle
        /\ execs = EmptyBag
        /\ \E r \in RuleIds : finished[r] = 1 /\ recovery_rules[r].failure_count >= 1
                                /\ recovery_rules[r].success_count = 0

Matching(event) == {r \in RuleIds : Eligible(recovery_rules[r], event)}

\* the place of a matching rule in the order of _attempt_recovery, counted
\* from 1: lower floor first, then longer action list, then earlier place in
\* the registry
Rank(r, event) ==
    LET ComesBefore(q) ==
            LET a == recovery_rules[q]
                b == recovery_rules[r]
            IN \/ a.success_rate_threshold < b.success_rate_threshold
               \/ /\ a.success_rate_threshold = b.success_rate_threshold
                  /\ \/ Len(a.actions) > Len(b.actions)
                     \/ Len(a.actions) = Len(b.actions) /\ q < r
    IN 1 + Cardinality({q \in Matching(event) : ComesBefore(q)})

\* the cooldown / success-rate admission check
Admissible(r) ==
    /\ \/ recovery_rules[r].last_used = NoTime
       \/ now - recovery_rules[r].last_used >= recovery_rules[r].cooldown_minutes
    /\ ~(Attempts(recovery_rules[r]) >= 10 /\ BelowFloor(recovery_rules[r]))

\* C25: when the processing of a report attempts recovery, the rule it starts
\* is the admissible rule of lowest rank among the matching rules of rank 1 to
\* 3 in the order (floor ascending, number of actions descending, registry
\* order); when none of those three is admissible it starts nothing, whatever
\* the rules of rank 4 and beyond.
C25_FirstAdmissibleOfTopThree ==
    [][(reporting.stage = "stored" /\ reporting'.stage = "idle" /\ MayAttemptRecovery) =>
          LET event == error_events[reporting.sig]
              top == {r \in Matching(event) : Rank(r, event) <= 3}
              ok == {r \in top : Admissible(r)}
          IN IF ok = {}
             THEN execs' = execs
             ELSE \E r \in ok :
                    /\ \A q \in ok : Rank(r, event) <= Rank(q, event)
                    /\ execs' = execs (+) SetToBag({NewExec(reporting.sig, r)})]_vars

\* four rules match the processed event, the three first in the order were
\* used a moment ago and the fourth is admissible: nothing was started
C25_Witness ==
    /\ reporting = Idle
    /\ execs = EmptyBag
    /\ \A r \in RuleIds : finished[r] = 0
    /\ ~emergency_mode_active
    /\ \E sig \in Signatures :
         /\ Cardinality(Matching(error_events[sig])) = 4
         /\ \A r \in Matching(error_events[sig]) :
              Admissible(r) <=> Rank(r, error_events[sig]) = 4
         /\ \E q, r \in Matching(error_events[sig]) :
              /\ q > r
              /\ Rank(q, error_events[sig]) < Rank(r, error_events[sig])

\* C26: an event becomes resolved, and gets its resolution timestamp, only in
\* the step that ends the action loop of a rule execution for it with every
\* action successful, and the actions recorded for it by then are the rule's
\* actions in order; an event none of whose executions succeeded, finished or
\* in flight, has nothing recorded: it is unresolved, without resolution
\* timestamp and with an empty recovery_actions_taken.
C26_OnlySuccessTouchesEvent ==
    /\ [][\A sig \in Signatures :
            (\/ error_events'[sig].resolved # error_events[sig].resolved
             \/ error_events'[sig].resolution_timestamp #
                    error_events[sig].resolution_timestamp) =>
                \E x \in BagToSet(execs), y \in BagToSet(execs') :
                    /\ x.ev = sig /\ y.ev = sig
                    /\ execs' = Replace(execs, x, y)
                    /\ y.pc = "store" /\ y.success
                    /\ error_events'[sig].resolved
                    /\ error_events'[sig].resolution_timestamp = now
                    /\ LET taken == error_events'[sig].recovery_actions_taken
                           actions == recovery_rules[x.rule].actions
                       IN /\ Len(taken) >= Len(actions)
                          /\ SubSeq(taken, Len(taken) - Len(actions) + 1, Len(taken))
                                = actions]_vars
    /\ [](\A sig \in Signatures :
            (/\ ~error_events[sig].resolved
             /\ \A x \in BagToSet(execs) : x.ev = sig => ~x.success) =>
                /\ error_events[sig].resolution_timestamp = NoTime
                /\ error_events[sig].recovery_actions_taken = <<>>)

\* C27: a task enters the rollback operation only in the step in which its
\* executor failed or its verification failed, the step that made it failed,
\* and only with auto-rollback enabled; with auto-rollback disabled that step
\* leaves the task failed on its way to the outcome record, no rollback ever
\* runs and no task is or ends rolled_back; and a task becomes rolled_back
\* only from failed, by the rollback operation.
C27_RollbackOnlyAfterFailure ==
    /\ [][\A id \in DOMAIN task_runs :
            /\ (id \in DOMAIN task_runs' /\ task_runs'[id].pc = "rollback"
                    /\ task_runs[id].pc # "rollback") =>
                  /\ auto_rollback_on_failure
                  /\ task_runs[id].pc = "executing"
                  /\ tasks[id].status = "in_progress"
                  /\ tasks'[id].status = "failed"
                  /\ ~task_runs'[id].success \/ HasFailedTest(tasks'[id])
            /\ (task_runs[id].pc = "executing" /\ id \in DOMAIN task_runs'
                    /\ task_runs'[id].pc # "executing" /\ tasks'[id].status = "failed") =>
                  task_runs'[id].pc = (IF auto_rollback_on_failure
                                       THEN "rollback" ELSE "store")
            /\ (id \in DOMAIN tasks' /\ tasks'[id].status = "rolled_back"
                    /\ tasks[id].status # "rolled_back") =>
                  /\ tasks[id].status = "failed"
                  /\ task_runs[id].pc = "rollback"]_vars
    /\ [](~auto_rollback_on_failure =>
            /\ \A id \in DOMAIN tasks : tasks[id].status # "rolled_back"
            /\ \A id \in DOMAIN task_runs : task_runs[id].pc # "rollback"
            /\ last_finished.status # "rolled_back")

\* with auto-rollback on, a task whose verification failed has been rolled back
\* and waits for its outcome record
C27_Witness ==
    /\ auto_rollback_on_failure
    /\ \E id \in DOMAIN task_runs :
         /\ task_runs[id].pc = "store"
         /\ task_runs[id].success
         /\ HasFailedTest(tasks[id])
         /\ tasks[id].status = "rolled_back"

\* a rule without its usage statistics
Definition(rule) ==
    [rule EXCEPT !.last_used = NoTime, !.success_count = 0, !.failure_count = 0]

\* C28: no step adds or removes a rule or changes a field of a rule other than
\* last_used, success_count and failure_count; every rule stays as the startup
\* registry defines it, enabled included, also when its success rate is below
\* its floor.
C28_RegistryFixed ==
    /\ [][/\ DOMAIN recovery_rules' = DOMAIN recovery_rules
          /\ \A r \in DOMAIN recovery_rules :
                Definition(recovery_rules'[r]) = Definition(recovery_rules[r])]_vars
    /\ [](/\ DOMAIN recovery_rules = RuleIds
          /\ \A r \in RuleIds :
                /\ Definition(recovery_rules[r]) = create_recovery_rules[r]
                /\ recovery_rules[r].enabled)

\* the memory rule was selected, its execution failed and ended, and its record
\* now stands below the floor with at least ten attempts: it is still enabled
C28_Witness ==
    /\ last_selected[MemoryRule] # NoTime
    /\ execs = EmptyBag
    /\ reporting = Idle
    /\ recovery_rules[MemoryRule].last_used = now
    /\ Attempts(recovery_rules[MemoryRule]) >= 10
    /\ BelowFloor(recovery_rules[MemoryRule])
    /\ recovery_rules[MemoryRule].enabled

\* C29: emergency_mode_active is false at startup; it changes only from false
\* to true, and only in a step of a rule execution that executes the
\* emergency_mode action; no step of either engine takes it back to false.
C29_EmergencyModeSticky ==
    /\ ~emergency_mode_active
    /\ [][emergency_mode_active' # emergency_mode_active =>
            /\ ~emergency_mode_active
            /\ emergency_mode_active'
            /\ \E x \in BagToSet(execs), y \in BagToSet(execs') :
                 /\ x.pc \in {"created", "await"}
                 /\ x.ev = y.ev /\ x.rule = y.rule
                 /\ execs' = Replace(execs, x, y)
                 /\ \E i \in 1..Len(Appended(x.ev)) : Appended(x.ev)[i] = "emergency_mode"]_vars
    /\ [][emergency_mode_active => emergency_mode_active']_vars

\* the flag is still set after the emergency rule's execution has ended and
\* after a modification task has since failed its safety pre-check
C29_Witness ==
    /\ emergency_mode_active
    /\ execs = EmptyBag
    /\ \E r \in RuleIds :
         /\ recovery_rules[r].name = "critical_emergency_mode"
         /\ finished[r] = 1
    /\ last_finished = [status |-> "failed", pc |-> "created"]

\* C30: every admitted task eventually leaves the active map; the step that
\* takes it out gives it a terminal status, ends its coroutine and frees one
\* slot.
C30_AdmittedTasksTerminate ==
    /\ \A id \in TaskIds : (id \in active_tasks) ~> (id \notin active_tasks)
    /\ [][\A id \in active_tasks :
            id \notin active_tasks' =>
                /\ last_finished'.status \in Terminal
                /\ id \in DOMAIN tasks' => tasks'[id].status = last_finished'.status
                /\ id \notin DOMAIN task_runs'
                /\ Cardinality(active_tasks') = Cardinality(active_tasks) - 1]_vars
    /\ [](active_tasks = DOMAIN task_runs)

\* with executors that need not return, a task that has left the active map or
\* waits for its executor stays so or leaves: the executor is the only place
\* where a task can stay for ever
C30_OnlyExecutorHolds ==
    \A id \in TaskIds : (id \in active_tasks) ~>
            \/ id \notin active_tasks
            \/ id \in DOMAIN task_runs /\ task_runs[id].pc = "executing"

\* a task has been through executor, failed verification and rollback, and its
\* last step has just freed the only occupied slot
C30_Witness ==
    /\ last_finished = [status |-> "rolled_back", pc |-> "store"]
    /\ active_tasks = {}
    /\ task_runs = <<>>
    /\ cycles >= 1

\* C31: with safety checks enabled, an admitted task with a target file passes
\* its safety pre-check on every resource reading below the thresholds when the
\* emergency flag is unset and no other active task shares one of its target
\* files.
C31_UncontendedTaskPassesPreCheck ==
    safety_checks_enabled =>
        \A id \in DOMAIN task_runs, usage \in ResourceReadings :
            (/\ task_runs[id].pc = "created"
             /\ tasks[id].target_files # {}
             /\ ~Pressure(usage)
             /\ ~emergency_mode_active
             /\ ~\E other \in active_tasks \ {id} : SharesFile(id, other))
            => perform_safety_checks(id, usage)

\* C32: the step in which a task reaches its terminal status and leaves the
\* active map finds actual_duration recorded, and the recorded value is the time
\* elapsed since the task was admitted to in_progress.
C32_DurationIsAdmissionToTerminal ==
    [][\A id \in active_tasks :
          id \notin active_tasks' =>
              LET recorded == IF id \in DOMAIN tasks' THEN tasks'[id].actual_duration
                              ELSE tasks[id].actual_duration
              IN /\ recorded # NoTime
                 /\ recorded = now' - task_runs[id].admitted_at]_vars

\* C33: the category of a stored event is a function of its message alone,
\* whatever the letter case: the category of the first of the ten keyword
\* groups, in their fixed order, of which the message contains a keyword, and
\* configuration when it contains none.
C33_CategoryOfFirstGroup ==
    LET groups ==
            << [keys |-> {"provider", "completion"}, category |-> "provider_failure"],
               [keys |-> {"memory", "cache"}, category |-> "memory_system"],
               [keys |-> {"mcp", "server"}, category |-> "mcp_server"],
               [keys |-> {"database", "sql"}, category |-> "database_connection"],
               [keys |-> {"timeout", "network"}, category |-> "network_timeout"],
               [keys |-> {"config", "setting"}, category |-> "configuration"],
               [keys |-> {"dependency", "import"}, category |-> "dependency_missing"],
               [keys |-> {"performance", "slow"},
                category |-> "performance_degradation"],
               [keys |-> {"auth", "token"}, category |-> "authentication"],
               [keys |-> {"disk", "resource"}, category |-> "resource_exhaustion"] >>
        Hits(message) ==
            {g \in 1..Len(groups) :
                \E i \in 1..Len(message) :
                    KeywordsIn(LowerWord(message[i])) \cap groups[g].keys # {}}
    IN \A sig \in Signatures :
           LET hits == Hits(error_events[sig].error_message)
           IN error_events[sig].category =
                  IF hits = {} THEN "configuration"
                  ELSE groups[CHOOSE g \in hits : \A h \in hits : g <= h].category

\* "disk Memory" is stored as memory_system: the memory group comes before the
\* resource group, whatever the order and the letter case of the words
C33_Witness ==
    \E sig \in Signatures :
        /\ error_events[sig].error_message = <<"disk", "Memory">>
        /\ error_events[sig].category = "memory_system"

\* C34: for every stored event of critical severity whose message matches
\* critical|fatal|system.*failure, whatever its category, the rules found for
\* it include critical_emergency_mode.
C34_EmergencyRuleForAnyCategory ==
    \A sig \in Signatures :
        LET event == error_events[sig]
            found == find_recovery_rules(recovery_rules, event)
        IN (/\ event.severity = "critical"
            /\ PatternMatches("critical|fatal|system.*failure", event.error_message))
           => \E i \in 1..Len(found) :
                  recovery_rules[found[i]].name = "critical_emergency_mode"

\* C35: an event is resolved exactly when its resolution timestamp is set, and
\* no step, a report of its signature included, takes a resolved event back to
\* unresolved or out of the table.
C35_ResolvedIsPermanent ==
    /\ [](\A sig \in Signatures :
            error_events[sig].resolved <=>
                error_events[sig].resolution_timestamp # NoTime)
    /\ [][\A sig \in Signatures :
            error_events[sig].resolved =>
                /\ sig \in DOMAIN error_events'
                /\ error_events'[sig].resolved]_vars

\* an event was reported again after it had been resolved, stayed resolved, and
\* a new recovery has been created for it
C35_Witness ==
    \E sig \in Signatures :
        /\ error_events[sig].resolved
        /\ error_events[sig].recurrence_count >= 2
        /\ error_events[sig].timestamp > error_events[sig].resolution_timestamp
        /\ \E x \in BagToSet(execs) : x.ev = sig /\ x.pc = "created"

MemoryRuleExcluded ==
    /\ Attempts(recovery_rules[MemoryRule]) >= 10
    /\ BelowFloor(recovery_rules[MemoryRule])

\* the statement without the condition on executions in flight: once the memory
\* rule has at least 10 recorded attempts and a success rate below its floor, no
\* execution of it is started in any later state
C37_FloorExclusionPermanent ==
    \A n \in 10..(MaxHistory + 4 + MaxFloorReports) :
        []((MemoryRuleExcluded /\ Started = n) => [](Started = n))

\* C37: once a rule has at least 10 recorded attempts and a success rate below
\* its floor and none of its executions is still in flight, every step leaves
\* it so: its counters stay as they are and no execution of it is started, in
\* any later state; every rule is enabled throughout.
C37_FloorExclusionWithNoneInFlight ==
    /\ [][\A r \in RuleIds :
            (/\ Attempts(recovery_rules[r]) >= 10
             /\ BelowFloor(recovery_rules[r])
             /\ \A x \in BagToSet(execs) : x.rule # r)
            => /\ recovery_rules'[r].success_count = recovery_rules[r].success_count
               /\ recovery_rules'[r].failure_count = recovery_rules[r].failure_count
               /\ \A x \in BagToSet(execs') : x.rule # r]_vars
    /\ [](\A r \in RuleIds : recovery_rules[r].enabled)

\* the rule fell below its floor with its last execution; after its cooldown
\* the error was reported again and processed without an execution
C37_Witness ==
    /\ MemoryRuleExcluded
    /\ recovery_rules[MemoryRule].last_used = 0
    /\ finished[MemoryRule] = Attempts(recovery_rules[MemoryRule])
    /\ now >= recovery_rules[MemoryRule].cooldown_minutes
    /\ execs = EmptyBag
    /\ reporting = Idle
    /\ \E sig \in Signatures :
         /\ error_events[sig].timestamp = now
         /\ RuleMatches(recovery_rules[MemoryRule], error_events[sig])

\* C40: every rule execution in flight finishes; the step in which an
\* execution finishes leaves no entry for its event in the active-recovery
\* table; the table has no entry when nothing is in flight, and a table that
\* has reached the cap gets below it again.
C40_ExecutionsFinishAndFreeSlots ==
    /\ (execs # EmptyBag) ~> (execs = EmptyBag)
    /\ [][\A x \in BagToSet(execs) :
            CopiesIn(x, execs') < CopiesIn(x, execs) /\ x.pc = "store"
                => error_events[x.ev].id \notin active_recoveries']_vars
    /\ [](execs = EmptyBag => active_recoveries = {})
    /\ (Cardinality(active_recoveries) >= max_concurrent_recoveries)
            ~> (Cardinality(active_recoveries) < max_concurrent_recoveries)

\* three events were reported and filled the table; their three executions
\* have finished, one of them failed, and the table is empty
C40_Witness ==
    /\ execs = EmptyBag
    /\ active_recoveries = {}
    /\ Cardinality(Signatures) = 3
    /\ SumOver(RuleIds, finished) = 3
    /\ \E r \in RuleIds : recovery_rules[r].failure_count >= 1

\* C38: in every state a task is in at most one of the pending queue, the
\* active map and the completed history, and the recent tasks of a status
\* snapshot name no task twice.
C38_TaskInOneCollection ==
    /\ \A id \in DOMAIN tasks :
          /\ ~(id \in Range(task_queue) /\ id \in active_tasks)
          /\ ~(id \in Range(task_queue) /\ id \in Range(completed_tasks))
          /\ ~(id \in active_tasks /\ id \in Range(completed_tasks))
    /\ LET m == get_self_modification_status
       IN ~m.raised =>
              \A i, j \in 1..Len(m.recent_tasks) :
                  m.recent_tasks[i].id = m.recent_tasks[j].id => i = j

\* C39: in every state the size of the active-recovery table, which the
\* admission test reads and which the status report returns as
\* active_recoveries, equals the number of rule executions that have been
\* started and have not finished.
C39_TableCountsExecutionsInFlight ==
    /\ Cardinality(active_recoveries) = InFlight
    /\ ~get_error_recovery_status.raised
            => get_error_recovery_status.active_recoveries = InFlight
====
